---- MODULE Spec2Model ----
(***************************************************************************)
(* Model of the versioned DAG engine of mastersync                         *)
(* (lib/versioned_collection.js): the ingress queues, the processQueues    *)
(* lock and the writer pipeline _ensureAllInDAG with its helpers.          *)
(***************************************************************************)
EXTENDS Integers, Sequences, FiniteSets, TLC

VARIABLES
  cfg,              \* constructor options and the inputs the environment may submit
  snapshot,         \* this._snapshotCollection: sequence of documents in natural order
  collection,       \* this._collection: the plain collection, id -> document or NoDoc
  lastReturnedInc,  \* this._lastReturnedInc
  gen,              \* number of versions drawn from _generateRandomVersion
  remotes,          \* this._remotes
  remoteQueues,     \* this._remoteQueues: remote name -> queue of { item, cb }
  oplogBuffer,      \* this._oplogBuffer: queue of { item, cb, done }
  locked,           \* this._locked
  run,              \* the processQueues runs in progress and where each of them is
  timers,           \* pending setTimeout retries of saveRemoteItem / saveOplogItem
  calls,            \* number of saveRemoteItem / saveOplogItem calls made so far
  cbs,              \* per call: what the caller's cb got ("none", "ok", "err", "twice")
  afterCbs,         \* per call: the results the caller's afterCb has got
  deferred,         \* calls that found their queue full at least once
  handed,           \* per remote: calls whose item was handed to _ensureAllInDAG, in order
  accepted,         \* calls whose oplog item was pushed on the oplog buffer, in order
  applied,          \* calls whose oplog item was applied successfully, in order
  crashed,          \* an exception nobody catches has ended the process
  lastCb,           \* what the most recent processQueues callback got
  skipped,          \* the auto processor found the lock set on its most recent tick
  stepped,          \* flips whenever a callback of a run in progress has run
  stopping,         \* stopAutoProcessing: the interval is cleared, how far the call is
  unread,             \* the oplog entries of the collection that the oplog reader has not given yet
  called,           \* the arguments of a call of one of the merge functions
  returned,         \* what that call returned
  reader,           \* a VersionedCollectionReader, its source, its queue and what it emitted
  mergeTree         \* a MergeTree: its trees, mergeWithLocal and the local write stream

vars == <<cfg, snapshot, collection, lastReturnedInc, gen, remotes, remoteQueues,
          oplogBuffer, locked, run, timers, calls, cbs, afterCbs, deferred, handed,
          accepted, applied, crashed, lastCb, skipped, stepped, stopping, unread,
          called, returned, reader, mergeTree>>

-----------------------------------------------------------------------------
(* Bounds of the model *)

MaxCalls == 4        \* saveRemoteItem / saveOplogItem calls per behaviour
MaxNodes == 5        \* versions of the DAGs _findLCAs is applied to
MaxValue == 3        \* attribute values of the bodies _threeWayMerge is applied to
MaxItems == 4        \* versions of the DAGs a reader reads
MaxOthers == 1       \* items of other perspectives next to the ones a reader reads
MaxCloses == 2       \* calls of close on a reader
MaxFeed == 3         \* items a peer writes to a MergeTree
MaxRuns == 2         \* calls of mergeWithLocal
MaxWrites == 2       \* writes to the local write stream of a MergeTree

-----------------------------------------------------------------------------
(* Values *)

localPerspective == "_local"
NoV == "none"                \* _id._v of a virtual merge (null)
NoDoc == [v |-> NoV, b |-> <<>>, present |-> FALSE]

\* the versions _generateRandomVersion hands out, in the order it is called
GenVersions == <<"g01", "g02", "g03", "g04", "g05", "g06", "g07", "g08", "g09", "g10", "g11", "g12">>

Attrs == {"x", "y"}

\* bodies are partial maps from attribute names to values
Bx(a) == [k \in {"x"} |-> a]
Bxy(a, b) == [k \in {"x", "y"} |-> IF k = "x" THEN a ELSE b]

\* The versions a peer can send: the version fixes id, parents, tombstone and body.
World ==
  [ A |-> [id |-> "d1", pa |-> <<>>,         d |-> FALSE, b |-> Bx(1)],
    B |-> [id |-> "d1", pa |-> <<"A">>,      d |-> FALSE, b |-> Bx(2)],
    C |-> [id |-> "d1", pa |-> <<"A">>,      d |-> FALSE, b |-> Bxy(1, 1)],
    D |-> [id |-> "d1", pa |-> <<"A">>,      d |-> FALSE, b |-> Bx(3)],
    E |-> [id |-> "d1", pa |-> <<"D">>,      d |-> FALSE, b |-> Bxy(3, 2)],
    F |-> [id |-> "d1", pa |-> <<"B", "D">>, d |-> FALSE, b |-> Bx(2)],
    G |-> [id |-> "d1", pa |-> <<"B", "D">>, d |-> FALSE, b |-> Bx(3)],
    T |-> [id |-> "d1", pa |-> <<"A">>,      d |-> TRUE,  b |-> Bx(1)],
    R |-> [id |-> "d1", pa |-> <<>>,         d |-> FALSE, b |-> Bx(5)],
    S |-> [id |-> "d1", pa |-> <<"R">>,      d |-> FALSE, b |-> Bx(6)],
    M |-> [id |-> "d1", pa |-> <<"B", "C">>, d |-> FALSE, b |-> Bxy(2, 1)],
    N |-> [id |-> "d1", pa |-> <<"C", "B">>, d |-> FALSE, b |-> Bxy(2, 1)],
    Z |-> [id |-> "d2", pa |-> <<>>,         d |-> FALSE, b |-> Bx(7)] ]

\* an item as a remote sends it: { _id: { _id, _v, _pe, _pa, [_d] }, ...body }
RemoteItem(ver, pe) ==
  [id |-> World[ver].id, v |-> ver, pe |-> pe, pa |-> World[ver].pa,
   d |-> World[ver].d, lo |-> FALSE, i |-> 0, c |-> FALSE, ack |-> FALSE,
   op |-> 0, b |-> World[ver].b, m3 |-> TRUE, ref |-> 0]

-----------------------------------------------------------------------------
(* Sequence helpers *)

RECURSIVE Reverse(_)
Reverse(s) == IF s = <<>> THEN <<>> ELSE Append(Reverse(Tail(s)), Head(s))

Range(s) == {s[k] : k \in DOMAIN s}

Contains(s, e) == \E k \in DOMAIN s : s[k] = e

IndexOf(s, e) == CHOOSE k \in DOMAIN s : s[k] = e /\ \A j \in 1..(k - 1) : s[j] # e

\* sequence without repetitions, keeping the first occurrence (key order of a JS object)
RECURSIVE Dedup(_)
Dedup(s) ==
  IF s = <<>> THEN <<>>
  ELSE LET r == Dedup(SubSeq(s, 1, Len(s) - 1))
       IN IF Contains(r, s[Len(s)]) THEN r ELSE Append(r, s[Len(s)])

\* remove every occurrence of e
Without(s, e) == SelectSeq(s, LAMBDA z : z # e)

\* a result handed to what continues with it, as to a callback
With(x, Then(_)) == Then(x)

\* stable sort of documents on _id._i, descending
RECURSIVE SortByIDesc(_)
SortByIDesc(s) ==
  IF s = <<>> THEN <<>>
  ELSE LET k == CHOOSE k \in DOMAIN s :
                  /\ \A j \in DOMAIN s : s[j].i <= s[k].i
                  /\ \A j \in (k + 1)..Len(s) : s[j].i < s[k].i
       IN <<s[k]>> \o SortByIDesc(SubSeq(s, 1, k - 1) \o SubSeq(s, k + 1, Len(s)))

-----------------------------------------------------------------------------
(* The virtual collection: the snapshot collection followed by the in-flight items *)

VC(snap, arr) == [snap |-> snap, arr |-> arr]

\* the selectors { '_id._id': id, '_id._pe': ... } and
\* { '_id._id': id, '_id._v': ..., '_id._pe': ... }, each of _v and _pe one value or $in
selectId(id, pes) == [id |-> id, anyV |-> TRUE, vs |-> {}, pes |-> pes]
selectVersions(id, vs, pes) == [id |-> id, anyV |-> FALSE, vs |-> vs, pes |-> pes]
matches(z, sel) == z.id = sel.id /\ z.pe \in sel.pes /\ (sel.anyV \/ z.v \in sel.vs)

\* find(selector).toArray()
Find(vc, sel) ==
  SelectSeq(vc.snap, LAMBDA z : matches(z, sel)) \o SelectSeq(vc.arr, LAMBDA z : matches(z, sel))

\* find(selector, { sort: -1 }): the in-flight items come after the persisted ones
FindDesc(vc, sel, byI) ==
  Reverse(SelectSeq(vc.arr, LAMBDA z : matches(z, sel))) \o
  (IF byI THEN SortByIDesc(SelectSeq(vc.snap, LAMBDA z : matches(z, sel)))
   ELSE Reverse(SelectSeq(vc.snap, LAMBDA z : matches(z, sel))))

\* walkBranch: visit the item with the given version and its ancestors within one
\* (id, perspective), newest first, until the iterator asks to stop
RECURSIVE walkBranchFinds(_, _, _)
walkBranchFinds(stream, frontier, version) ==
  IF stream = <<>> THEN FALSE
  ELSE LET it == Head(stream)
       IN IF it.v \in frontier
          THEN IF it.v = version THEN TRUE
               ELSE walkBranchFinds(Tail(stream), (frontier \ {it.v}) \cup Range(it.pa), version)
          ELSE walkBranchFinds(Tail(stream), frontier, version)

isAncestorOf(vc, version, item) ==
  IF version = item.v \/ Contains(item.pa, version) THEN TRUE
  ELSE walkBranchFinds(
         FindDesc(vc, selectId(item.id, {item.pe}), item.pe = localPerspective),
         {item.v}, version)

-----------------------------------------------------------------------------
(* _threeWayMerge on bodies *)

\* the delta of a body against its lca: attribute -> "+", "~" or "-"
diff(item, base) ==
  [k \in {a \in DOMAIN item : a \notin DOMAIN base \/ item[a] # base[a]}
         \cup (DOMAIN base \ DOMAIN item) |->
     IF k \notin DOMAIN item THEN "-"
     ELSE IF k \in DOMAIN base THEN "~" ELSE "+"]

\* conflicts of the kind of change only: the values both sides set are not compared
kindConflictsOnly(itemA, itemB, lca, lcaB) ==
  LET diffA == diff(itemA, lca)
      diffB == diff(itemB, lcaB)
  IN {delta \in DOMAIN diffB : delta \in DOMAIN diffA /\ diffA[delta] # diffB[delta]}

threeWayMergeConflicts(itemA, itemB, lca, lcaB) ==
  LET diffA == diff(itemA, lca)
      diffB == diff(itemB, lcaB)
  IN {k \in DOMAIN lcaB : k \in DOMAIN diffA /\ diffA[k] = "+"}
     \cup
     {delta \in DOMAIN diffB :
        \/ delta \in DOMAIN diffA /\ diffA[delta] # diffB[delta]
        \/ /\ ~(delta \in DOMAIN diffA /\ diffA[delta] # diffB[delta])
           /\ diffB[delta] # "-"
           /\ \/ delta \in DOMAIN diffA /\ diffA[delta] = "~" /\ itemA[delta] # itemB[delta]
              \/ delta \in DOMAIN diffA /\ diffA[delta] = "+" /\ itemA[delta] # itemB[delta]
              \/ diffB[delta] = "+" /\ delta \in DOMAIN itemA /\ itemA[delta] # itemB[delta]}

\* the body of itemA with nothing of itemB applied
bodyOfItemA(itemA, itemB, lca, lcaB) == itemA

threeWayMergeBody(itemA, itemB, lca, lcaB) ==
  LET diffB == diff(itemB, lcaB)
      dels == {k \in DOMAIN diffB : diffB[k] = "-"}
      sets == DOMAIN diffB \ dels
  IN [k \in (DOMAIN itemA \cup sets) \ dels |-> IF k \in sets THEN itemB[k] ELSE itemA[k]]

\* both deltas taken against the lca of itemA
threeWayMergeOneLCA(itemA, itemB, lca, lcaB) ==
  With(threeWayMergeConflicts(itemA, itemB, lca, lca), LAMBDA cs :
    IF cs # {} THEN [conflict |-> TRUE, conflicts |-> cs, b |-> <<>>]
    ELSE [conflict |-> FALSE, conflicts |-> {}, b |-> threeWayMergeBody(itemA, itemB, lca, lca)])

\* returns the conflicting attribute names or the merged body
threeWayMerge(itemA, itemB, lca, lcaB) ==
  With(threeWayMergeConflicts(itemA, itemB, lca, lcaB), LAMBDA cs :
    IF cs # {} THEN [conflict |-> TRUE, conflicts |-> cs, b |-> <<>>]
    ELSE [conflict |-> FALSE, conflicts |-> {}, b |-> threeWayMergeBody(itemA, itemB, lca, lcaB)])

-----------------------------------------------------------------------------
(* _findLCAs *)

\* add keys to a JS object used as a set: a key that is present keeps its place
RECURSIVE AddKeys(_, _)
AddKeys(keys, new) ==
  IF new = <<>> THEN keys
  ELSE AddKeys(IF Contains(keys, Head(new)) THEN keys ELSE Append(keys, Head(new)), Tail(new))

\* the versions a frontier starts with: the item, or the parents of a virtual merge
initialHeads(item) == IF item.v # NoV THEN <<item.v>> ELSE Dedup(item.pa)

\* "finish up": add the open heads that are no common ancestor and exist in every perspective
RECURSIVE lcaFinish(_, _, _, _, _, _)
lcaFinish(vc, id, pes, heads, cas, lcas) ==
  IF heads = <<>> THEN [err |-> "", lcas |-> lcas]
  ELSE LET head == Head(heads)
       IN IF head \in cas THEN lcaFinish(vc, id, pes, Tail(heads), cas, lcas)
          ELSE IF Len(Find(vc, selectVersions(id, {head}, pes))) # Cardinality(pes)
               THEN [err |-> "missing at least one perspective when fetching lca", lcas |-> lcas]
               ELSE lcaFinish(vc, id, pes, Tail(heads), cas, Append(lcas, head))

\* one 'data' event of the stream; st = [hx, hy, ax, ay, cas, lcas]
lcaVisit(st, item, peX, peY) ==
  LET inX == Contains(st.hx, item.v) /\ item.pe = peX
      s1 == IF inX
            THEN [st EXCEPT !.hx = AddKeys(Without(st.hx, item.v), item.pa),
                            !.ax = st.ax \cup {item.v},
                            !.lcas = IF item.v \in st.ay /\ item.v \notin st.cas
                                     THEN Append(st.lcas, item.v) ELSE st.lcas,
                            !.cas = IF item.v \in st.ay THEN st.cas \cup Range(item.pa) ELSE st.cas]
            ELSE st
      inY == Contains(s1.hy, item.v) /\ item.pe = peY
  IN IF inY
     THEN [s1 EXCEPT !.hy = AddKeys(Without(s1.hy, item.v), item.pa),
                     !.ay = s1.ay \cup {item.v},
                     !.lcas = IF item.v \in s1.ax /\ item.v \notin s1.cas
                              THEN Append(s1.lcas, item.v) ELSE s1.lcas,
                     !.cas = IF item.v \in s1.ax THEN s1.cas \cup Range(item.pa) ELSE s1.cas]
     ELSE s1

RECURSIVE lcaWalk(_, _, _, _, _, _)
lcaWalk(vc, id, stream, st, peX, peY) ==
  IF stream = <<>> THEN [err |-> "", lcas |-> st.lcas]
  ELSE With(lcaVisit(st, Head(stream), peX, peY), LAMBDA s1 :
         IF Range(s1.hx) = Range(s1.hy)
         THEN lcaFinish(vc, id, {peX, peY}, s1.hx, s1.cas, s1.lcas)
         ELSE lcaWalk(vc, id, Tail(stream), s1, peX, peY))

\* returns [err, lcas]: the versions of the lowest common ancestors of itemX and itemY
findLCAs(vc, itemX, itemY) ==
  LET peX == itemX.pe
      peY == itemY.pe
      shortcut ==
        IF peX = peY
        THEN (IF Len(itemX.pa) = 1 /\ itemY.v # NoV /\ itemX.pa[1] = itemY.v
              THEN <<itemY.v>> ELSE <<>>) \o
             (IF Len(itemY.pa) = 1 /\ itemX.v # NoV /\ itemY.pa[1] = itemX.v
              THEN <<itemX.v>> ELSE <<>>)
        ELSE <<>>
      stream == FindDesc(vc, selectId(itemX.id, {peX, peY}),
                         peX = peY /\ peX = localPerspective)
  IN IF itemX.id # itemY.id
     THEN [err |-> "itemX._id._id must equal itemY._id._id", lcas |-> <<>>]
     ELSE IF shortcut # <<>> THEN [err |-> "", lcas |-> shortcut]
     ELSE lcaWalk(vc, itemX.id, stream,
                  [hx |-> initialHeads(itemX), hy |-> initialHeads(itemY),
                   ax |-> {}, ay |-> {}, cas |-> {}, lcas |-> <<>>], peX, peY)

-----------------------------------------------------------------------------
(* _merge: recursive three-way merge of two items, bound to their perspectives *)

\* string order of the versions and perspective names that occur
VersionOrder == <<"A", "B", "C", "D", "E", "F", "G", "M", "N", "R", "S", "T", "Z">> \o GenVersions \o <<"none">>
PerspectiveOrder == <<"_local", "r1", "r2">>

\* '' + a._id._v + a._id._pe > '' + b._id._v + b._id._pe
greaterByVersionAndPerspective(a, b) ==
  \/ IndexOf(VersionOrder, a.v) > IndexOf(VersionOrder, b.v)
  \/ a.v = b.v /\ IndexOf(PerspectiveOrder, a.pe) > IndexOf(PerspectiveOrder, b.pe)

RECURSIVE insertSorted(_, _)
insertSorted(sorted, e) ==
  IF sorted = <<>> THEN <<e>>
  ELSE IF greaterByVersionAndPerspective(sorted[Len(sorted)], e)
       THEN Append(insertSorted(SubSeq(sorted, 1, Len(sorted) - 1), e), sorted[Len(sorted)])
       ELSE Append(sorted, e)

RECURSIVE sortByVersionAndPerspective(_)
sortByVersionAndPerspective(items) ==
  IF items = <<>> THEN <<>>
  ELSE insertSorted(sortByVersionAndPerspective(SubSeq(items, 1, Len(items) - 1)), items[Len(items)])

\* a genuine merge: new _id without _v, no _m3
newMergeItem(id, pe, pa, d, b) ==
  [id |-> id, v |-> NoV, pe |-> pe, pa |-> pa, d |-> d, lo |-> TRUE, i |-> 0, c |-> FALSE,
   ack |-> FALSE, op |-> 0, b |-> b, m3 |-> FALSE, ref |-> 0]

\* a recreated fast-forward: the _id of "of" (its _pa array included) under perspective pe
fastForwardItem(of, pe, b) ==
  [of EXCEPT !.pe = pe, !.b = b, !.m3 = FALSE, !.c = FALSE, !.ack = FALSE, !.op = 0]

mergeResult(err, merged, pes) == [err |-> err, merged |-> merged, pes |-> pes]

\* done() with one effective lca
mergeOneLCA(objX, objY, lcas, pes) ==
  IF Len(pes) = 1
  THEN IF objX.v # NoV /\ objX.v = objY.v THEN mergeResult("", <<objX>>, pes)
       ELSE IF lcas[1].v # NoV /\ lcas[1].v = objX.v THEN mergeResult("", <<objY>>, pes)
       ELSE IF lcas[1].v # NoV /\ lcas[1].v = objY.v THEN mergeResult("", <<objX>>, pes)
       ELSE With(threeWayMerge(objX.b, objY.b, lcas[1].b, lcas[1].b), LAMBDA m :
              IF m.conflict THEN mergeResult("merge conflict", <<>>, pes)
              ELSE mergeResult("",
                     <<newMergeItem(objX.id, objX.pe,
                         (IF objX.v # NoV THEN <<objX.v>> ELSE objX.pa) \o <<objY.v>>,
                         objX.d /\ objY.d, m.b)>>, pes))
  ELSE IF objX.v # NoV /\ objX.v = objY.v THEN mergeResult("", <<objX, objY>>, pes)
       ELSE IF lcas[1].v # NoV /\ lcas[1].v = objX.v
       THEN With(IF objY.pe = lcas[1].pe
                 THEN threeWayMerge(objX.b, objY.b, lcas[2].b, lcas[1].b)
                 ELSE threeWayMerge(objX.b, objY.b, lcas[1].b, lcas[2].b), LAMBDA m :
              IF m.conflict THEN mergeResult("merge conflict", <<>>, pes)
              ELSE mergeResult("", <<fastForwardItem(objY, objX.pe, m.b), objY>>, pes))
       ELSE IF lcas[1].v # NoV /\ lcas[1].v = objY.v
       THEN With(IF objX.pe = lcas[1].pe
                 THEN threeWayMerge(objY.b, objX.b, lcas[2].b, lcas[1].b)
                 ELSE threeWayMerge(objY.b, objX.b, lcas[1].b, lcas[2].b), LAMBDA m :
              IF m.conflict THEN mergeResult("merge conflict", <<>>, pes)
              ELSE mergeResult("", <<objX, fastForwardItem(objX, objY.pe, m.b)>>, pes))
       ELSE LET xFirst == objX.pe = lcas[1].pe
            IN With(IF xFirst THEN threeWayMerge(objX.b, objY.b, lcas[1].b, lcas[2].b)
                    ELSE threeWayMerge(objX.b, objY.b, lcas[2].b, lcas[1].b), LAMBDA m0 :
               With(IF xFirst THEN threeWayMerge(objY.b, objX.b, lcas[2].b, lcas[1].b)
                    ELSE threeWayMerge(objY.b, objX.b, lcas[1].b, lcas[2].b), LAMBDA m1 :
                 IF m0.conflict \/ m1.conflict THEN mergeResult("merge conflict", <<>>, pes)
                 ELSE mergeResult("",
                        <<newMergeItem(objX.id, objX.pe,
                            (IF objX.v # NoV THEN <<objX.v>> ELSE objX.pa) \o <<objY.v>>,
                            objX.d /\ objY.d, m0.b),
                          newMergeItem(objX.id, objY.pe,
                            (IF objX.v # NoV THEN <<objX.v>> ELSE <<>>) \o <<objY.v>>,
                            objX.d /\ objY.d, m1.b)>>, pes)))

RECURSIVE merge(_, _, _)
RECURSIVE mergeDone(_, _, _, _, _)
RECURSIVE mergeWaterfall(_, _, _, _, _, _, _)

\* async.waterfall over createFunc(0..): fold the sorted lcas into one virtual lca
mergeWaterfall(vc, objX, objY, lcas, pes, j, prev) ==
  LET P == Len(pes)
  IN IF (j + 1) * P >= Len(lcas) THEN mergeDone(vc, objX, objY, prev.merged, prev.pes)
     ELSE LET first == IF j = 0
                       THEN (IF objX.pe # lcas[j * P + 1].pe THEN lcas[j * P + 2] ELSE lcas[j * P + 1])
                       ELSE (IF objX.pe # prev.merged[1].pe THEN prev.merged[2] ELSE prev.merged[1])
              second == IF objY.pe # lcas[j * P + P + 1].pe
                        THEN lcas[j * P + P + 2] ELSE lcas[j * P + P + 1]
          IN With(merge(vc, first, second), LAMBDA r :
               IF r.err # "" THEN mergeResult(r.err, <<>>, pes)
               ELSE mergeWaterfall(vc, objX, objY, lcas, pes, j + 1, r))

\* done(err, nlcas, perspectives)
mergeDone(vc, objX, objY, nlcas, pes) ==
  IF nlcas = <<>> THEN mergeResult("no lca found", <<>>, pes)
  ELSE LET lcas == [k \in DOMAIN nlcas |-> [nlcas[k] EXCEPT !.m3 = FALSE]]
       IN IF Len(lcas) = Len(pes) THEN mergeOneLCA(objX, objY, lcas, pes)
          ELSE mergeWaterfall(vc, objX, objY, sortByVersionAndPerspective(lcas), pes, 0,
                              mergeResult("", <<>>, pes))

\* returns [err, merged, pes]
merge(vc, objX, objY) ==
  LET pes == IF objX.pe # objY.pe THEN <<objX.pe, objY.pe>> ELSE <<objX.pe>>
  IN IF objX.id # objY.id THEN mergeResult("merge id mismatch", <<>>, pes)
     ELSE With(findLCAs(vc, objX, objY), LAMBDA f :
       IF f.err # "" THEN mergeResult(f.err, <<>>, pes)
       ELSE IF f.lcas = <<>> THEN mergeResult("no lca found", <<>>, pes)
       ELSE With(Find(vc, selectVersions(objX.id, Range(f.lcas), Range(pes))),
                 LAMBDA lcaPerspectives :
         IF Len(lcaPerspectives) # Len(f.lcas) * Len(pes)
         THEN mergeResult("error when fetching perspective bound lca's", <<>>, pes)
         ELSE mergeDone(vc, objX, objY, lcaPerspectives, pes)))

-----------------------------------------------------------------------------
(* The writer pipeline works on the objects of one batch. heap holds the objects; *)
(* lists hold references (indices) to them, so that a change made through one    *)
(* reference shows through the others, as in the code. ref names the _pa array   *)
(* an _id holds: shallow clones of an _id share it.                              *)

IdOrder == <<"d1", "d2">>
Ids == {IdOrder[k] : k \in DOMAIN IdOrder}

\* item._id._pa[0] = version, seen through every _id that holds the same array
setFirstParent(heap, k, version) ==
  [j \in DOMAIN heap |->
     IF j = k \/ (heap[k].ref # 0 /\ heap[j].ref = heap[k].ref)
     THEN [heap[j] EXCEPT !.pa = <<version>> \o (IF heap[j].pa = <<>> THEN <<>> ELSE Tail(heap[j].pa))]
     ELSE heap[j]]

\* item._m3 = { _ack: false, _op: new Timestamp(0, 0) }
resetM3(item) == [item EXCEPT !.m3 = TRUE, !.ack = FALSE, !.op = 0, !.c = FALSE]

\* the values a list of references points to
Deref(heap, refs) == [j \in DOMAIN refs |-> heap[refs[j]]]

\* _ensureM3
ensureM3(item) == IF item.m3 THEN item ELSE resetM3(item)

\* _checkAncestry: st = [err, heap, ids, dags, newRoots]
RECURSIVE checkAncestryFrom(_, _)
checkAncestryFrom(st, k) ==
  IF k > Len(st.heap) \/ st.err # "" THEN st
  ELSE LET item == st.heap[k]
           dag == st.dags[item.id]
           length == Len(dag)
           isRoot == item.pa = <<>>
           prevDeleted == length > 0 /\ st.heap[dag[length]].d
           heap1 == IF isRoot /\ prevDeleted
                    THEN setFirstParent(st.heap, k, st.heap[dag[length]].v) ELSE st.heap
       IN IF isRoot /\ length > 0 /\ ~prevDeleted
          THEN [st EXCEPT !.err = "root preceded"]
          ELSE checkAncestryFrom(
                 [st EXCEPT !.heap = heap1,
                            !.ids = IF Contains(st.ids, item.id) THEN st.ids ELSE Append(st.ids, item.id),
                            !.dags = [st.dags EXCEPT ![item.id] = Append(dag, k)],
                            !.newRoots = IF isRoot THEN st.newRoots \cup {item.id} ELSE st.newRoots],
                 k + 1)

checkAncestry(items) ==
  checkAncestryFrom([err |-> "", heap |-> items, ids |-> <<>>,
                     dags |-> [d \in Ids |-> <<>>], newRoots |-> {}], 1)

\* _checkParentsInVirtualCollection: the error, or ""
checkParentsInVirtualCollection(vc, items) ==
  IF \E k \in DOMAIN items : \E p \in Range(items[k].pa) :
       Find(vc, selectVersions(items[k].id, {p}, {items[k].pe})) = <<>>
  THEN "parent not found" ELSE ""

\* the tombstone _branchHeads keeps track of: a position in items, or 0
RECURSIVE trackDeleted(_, _, _)
trackDeleted(items, k, del) ==
  IF k > Len(items) THEN del
  ELSE LET own == IF items[k].d THEN k ELSE del
           kept == IF items[k].pa = <<>> THEN 0
                   ELSE IF own # 0 /\ items[own].v \in Range(items[k].pa) THEN 0 ELSE own
       IN trackDeleted(items, k + 1, kept)

\* _branchHeads: the positions in items of the heads, then of the tracked tombstone
branchHeads(items, includeDeleted, includeConflicted) ==
  LET cand == {k \in DOMAIN items : ~items[k].m3 \/ ~items[k].c \/ includeConflicted}
      keys == Dedup(SelectSeq([k \in DOMAIN items |-> IF k \in cand THEN items[k].v ELSE ""],
                              LAMBDA v : v # ""))
      removed == {items[k].v : k \in {j \in DOMAIN items : items[j].d}}
                 \cup UNION {Range(items[k].pa) : k \in DOMAIN items}
      heads == SelectSeq(keys, LAMBDA v : v \notin removed)
      lastWith(v) == CHOOSE k \in cand : items[k].v = v /\ \A j \in cand : items[j].v = v => j <= k
      del == trackDeleted(items, 1, 0)
  IN [j \in DOMAIN heads |-> lastWith(heads[j])]
     \o (IF includeDeleted /\ del # 0 THEN <<del>> ELSE <<>>)

\* _markConflicts: every head but the first gets _m3._c
markConflicts(heap, heads) ==
  [j \in DOMAIN heap |->
     IF \E h \in 2..Len(heads) : heads[h] = j THEN [heap[j] EXCEPT !.c = TRUE] ELSE heap[j]]

\* _ensureOneHead: [crash, heap, newHeads]; with no head at all _markConflicts calls
\* back without a list and reading its length throws
ensureOneHead(heap, toProcess) ==
  IF toProcess = <<>> THEN [crash |-> FALSE, heap |-> heap, newHeads |-> <<>>]
  ELSE With(branchHeads(Deref(heap, toProcess), TRUE, FALSE), LAMBDA pos :
    LET newHeads == [j \in DOMAIN pos |-> toProcess[pos[j]]]
    IN IF newHeads = <<>> THEN [crash |-> TRUE, heap |-> heap, newHeads |-> <<>>]
       ELSE [crash |-> FALSE, heap |-> markConflicts(heap, newHeads),
             newHeads |-> <<newHeads[1]>>])

-----------------------------------------------------------------------------
(* _ensureLocalPerspective: lp = [err, heap, newItems, newLocalItems, existingLocalItems] *)

\* a shallow clone of the item and of its _id, under the local perspective
localVersion(item) == [resetM3(item) EXCEPT !.pe = localPerspective]

\* queue a newly created local item for insertion
pushNewLocal(lp, obj) ==
  [lp EXCEPT !.heap = Append(@, obj),
             !.newItems = Append(@, Len(lp.heap) + 1),
             !.newLocalItems = Append(@, Len(lp.heap) + 1)]

ensureLocalPerspectiveItem(snap, lp, k, proceedOnError) ==
  LET item == lp.heap[k]
      vc == VC(snap, Deref(lp.heap, lp.newItems))
      isLocal(z) == z.id = item.id /\ z.pe = localPerspective
      inBatch == {j \in DOMAIN lp.newItems : isLocal(lp.heap[lp.newItems[j]])}
      lastInBatch == lp.newItems[CHOOSE j \in inBatch : \A j2 \in inBatch : j2 <= j]
      inSnap == SelectSeq(snap, isLocal)
      lastLocalItem == IF inBatch # {} THEN lp.heap[lastInBatch] ELSE inSnap[Len(inSnap)]
      localOf(version) ==
        FindDesc(vc, selectVersions(item.id, {version}, {localPerspective}), TRUE)
      fail(e) == [lp EXCEPT !.err = e]
      restored == [lp EXCEPT !.heap[k] = resetM3(item)]
  IN IF inBatch = {} /\ inSnap = <<>> THEN pushNewLocal(lp, localVersion(item))
     ELSE IF isAncestorOf(vc, item.v, lastLocalItem)
     THEN IF inBatch # {}
          THEN [lp EXCEPT !.existingLocalItems = Append(@, lastInBatch)]
          ELSE [lp EXCEPT !.heap = Append(@, lastLocalItem),
                          !.existingLocalItems = Append(@, Len(lp.heap) + 1)]
     ELSE With(findLCAs(vc, item, lastLocalItem), LAMBDA f :
       IF f.err # "" THEN fail(f.err)
       ELSE IF f.lcas = <<>>
       THEN IF lastLocalItem.d /\ item.pa = <<>> THEN pushNewLocal(lp, localVersion(item))
            ELSE IF proceedOnError THEN lp ELSE fail("no lca found")
       ELSE IF Len(f.lcas) > 1
       THEN LET p1 == IF Len(item.pa) >= 1 THEN localOf(item.pa[1]) ELSE <<>>
                p2 == IF Len(item.pa) >= 2 THEN localOf(item.pa[2]) ELSE <<>>
            IN IF Len(item.pa) > 2
               THEN fail("merging items with more than two parents and multiple lcas is not supported yet")
               ELSE IF p1 = <<>> THEN fail("parent one with local perspective not found")
               ELSE IF p2 = <<>> THEN fail("parent two with local perspective not found")
               ELSE With(merge(vc, p1[1], p2[1]), LAMBDA m :
                 IF m.err # "" THEN fail(m.err)
                 ELSE IF m.merged[1].v # NoV THEN fail("existing version used")
                 ELSE IF m.merged[1].m3 THEN fail("m3 not expected")
                 ELSE pushNewLocal(restored,
                                   [resetM3(m.merged[1]) EXCEPT !.v = item.v, !.lo = FALSE]))
       ELSE LET lca == localOf(f.lcas[1])
            IN IF lca = <<>> THEN fail("lca with local perspective not found")
               ELSE With(merge(vc, item, lca[1]), LAMBDA m :
                 IF m.err # "" THEN fail(m.err)
                 ELSE IF m.merged[2].v = NoV
                 THEN fail("new version created while expecting fast-forward by merge")
                 ELSE IF m.merged[2].m3 THEN lp
                 ELSE pushNewLocal(restored, resetM3(m.merged[2]))))

RECURSIVE ensureLocalPerspectiveFrom(_, _, _, _, _)
ensureLocalPerspectiveFrom(snap, lp, items, j, proceedOnError) ==
  IF j > Len(items) \/ lp.err # "" THEN lp
  ELSE ensureLocalPerspectiveFrom(snap,
         ensureLocalPerspectiveItem(snap, lp, items[j], proceedOnError), items, j + 1, proceedOnError)

\* returns [err, heap, newItems, items]: items are the new, then the existing local items
ensureLocalPerspective(snap, heap, items, proceedOnError) ==
  LET unknown(k) == Find(VC(snap, <<>>), selectVersions(heap[k].id, {heap[k].v}, {heap[k].pe})) = <<>>
      lp0 == [err |-> "", heap |-> heap, newItems |-> SelectSeq(items, unknown),
              newLocalItems |-> <<>>, existingLocalItems |-> <<>>]
  IN IF items = <<>> \/ heap[items[1]].pe = localPerspective
     THEN [err |-> "", heap |-> heap, newItems |-> items, items |-> <<>>]
     ELSE With(ensureLocalPerspectiveFrom(snap, lp0, items, 1, proceedOnError), LAMBDA lp :
            [err |-> lp.err, heap |-> lp.heap, newItems |-> lp.newItems,
             items |-> lp.newLocalItems \o lp.existingLocalItems])

-----------------------------------------------------------------------------
(* _mergeNewHeads, _ensureIntoSnapshot, _syncLocalHeadsWithCollection *)

\* findOne(selector, { sort: { '_id._i': -1 } }) on the snapshot collection
\* of the local perspective of id; ackdOrLo adds $or: [{ _id._lo }, { _m3._ack }]
lastByI(snap, id, ackdOrLo) ==
  SortByIDesc(SelectSeq(snap, LAMBDA z : /\ z.id = id /\ z.pe = localPerspective
                                         /\ (ackdOrLo => (z.lo \/ z.ack))))

\* _ensureVersion: an item without version gets what _generateRandomVersion returned
ensureVersion(item, random) == IF item.v = NoV THEN [item EXCEPT !.v = random] ELSE item

\* returns [err, heap, added, gen]; arr are the in-flight items of the virtual collection
mergeNewHeads(snap, heap, arr, heads, newRoots, g, proceedOnError) ==
  LET h == heads[1]
      same(hp) == [err |-> "", heap |-> hp, added |-> <<>>, gen |-> g]
  IN IF heads = <<>> THEN same(heap)
     ELSE With(lastByI(snap, heap[h].id, FALSE),
               LAMBDA found :
       LET localHead == found[1]
           isNewRoot == heap[h].id \in newRoots /\ heap[h].pa = <<>>
       IN With(IF isNewRoot /\ found # <<>> /\ localHead.d
               THEN setFirstParent(heap, h, localHead.v) ELSE heap, LAMBDA heap1 :
            LET head == heap1[h]
            IN IF head.id \in newRoots /\ head.pa = <<>> /\ found # <<>>
                  /\ localHead.pa = <<>> /\ localHead.v # head.v
               THEN IF proceedOnError THEN same(heap1)
                    ELSE [err |-> "different root already in snapshot", heap |-> heap1,
                          added |-> <<>>, gen |-> g]
               ELSE IF found = <<>> \/ localHead.v = head.v \/ localHead.d THEN same(heap1)
               ELSE With(merge(VC(snap, Deref(heap1, arr)), localHead, head), LAMBDA m :
                 IF m.err = "merge conflict" THEN same([heap1 EXCEPT ![h].c = TRUE])
                 ELSE IF m.err # ""
                 THEN [err |-> m.err, heap |-> heap1, added |-> <<>>, gen |-> g]
                 ELSE IF m.merged[1].v # NoV THEN same(heap1)
                 ELSE [err |-> "",
                       heap |-> Append(heap1,
                                  ensureVersion(resetM3(m.merged[1]), GenVersions[g + 1])),
                       added |-> <<Len(heap1) + 1>>, gen |-> g + 1])))

\* the highest _id._i in the snapshot collection, 0 if there is none
maxIncrement(snap) ==
  IF snap = <<>> THEN 0 ELSE (CHOOSE z \in Range(snap) : \A y \in Range(snap) : y.i <= z.i).i

\* the selector built from the keys of newItem._id, _i left out
existsInSnapshot(snap, newItem) ==
  \E k \in DOMAIN snap :
    /\ snap[k].id = newItem.id /\ snap[k].v = newItem.v /\ snap[k].pe = newItem.pe
    /\ snap[k].pa = newItem.pa
    /\ (newItem.lo => snap[k].lo)
    /\ (newItem.d => snap[k].d)

\* "(re-)set sequence number on local items": the j-th local item gets base + j
RECURSIVE setIncrements(_, _, _, _)
setIncrements(heap, localItems, j, base) ==
  IF j > Len(localItems) THEN heap
  ELSE setIncrements([heap EXCEPT ![localItems[j]].i = base + j], localItems, j + 1, base)

RECURSIVE insertNew(_, _)
insertNew(snap, allNew) ==
  IF allNew = <<>> THEN snap
  ELSE insertNew(IF existsInSnapshot(snap, Head(allNew)) THEN snap
                 ELSE Append(snap, [Head(allNew) EXCEPT !.ref = 0]),
                 Tail(allNew))

\* the heads of the local items, DAG by DAG in the order the ids first occur
RECURSIVE newLocalHeadsOf(_, _, _)
newLocalHeadsOf(heap, localItems, ids) ==
  IF ids = <<>> THEN <<>>
  ELSE LET own == SelectSeq(localItems, LAMBDA k : heap[k].id = Head(ids))
           pos == branchHeads(Deref(heap, own), TRUE, FALSE)
       IN [j \in DOMAIN pos |-> own[pos[j]]] \o newLocalHeadsOf(heap, localItems, Tail(ids))

\* returns [snap, inc, heap, newLocalHeads]
ensureIntoSnapshot(snap, inc, perspective, heap, localItems, remoteItems) ==
  LET allNew == (IF perspective # localPerspective THEN remoteItems ELSE <<>>) \o localItems
      heads == newLocalHeadsOf(heap, localItems, Dedup([j \in DOMAIN localItems |-> heap[localItems[j]].id]))
      base == IF inc # 0 THEN inc ELSE maxIncrement(snap)
      heap1 == setIncrements(heap, localItems, 1, base)
  IN IF localItems = <<>>
     THEN [snap |-> snap, inc |-> inc, heap |-> heap, newLocalHeads |-> <<>>]
     ELSE [snap |-> insertNew(snap, Deref(heap1, allNew)), inc |-> base + Len(localItems),
           heap |-> heap1, newLocalHeads |-> heads]

\* _syncDAGItemWithCollection: remove the document of a tombstone, upsert any other head
syncDAGItemWithCollection(coll, item) ==
  IF item.d THEN [coll EXCEPT ![item.id] = NoDoc]
  ELSE [coll EXCEPT ![item.id] = [v |-> item.v, b |-> item.b, present |-> TRUE]]

RECURSIVE syncLocalHeadsWithCollection(_, _)
syncLocalHeadsWithCollection(coll, heads) ==
  IF heads = <<>> THEN coll
  ELSE syncLocalHeadsWithCollection(syncDAGItemWithCollection(coll, Head(heads)), Tail(heads))

-----------------------------------------------------------------------------
(* _ensureAllInDAG *)

\* the part of the pipeline that runs per id: da = [err, crash, heap, localItems, gen]
ensureOneDAG(snap, da, items, newRoots, perspective, proceedOnError) ==
  LET parents == checkParentsInVirtualCollection(VC(snap, Deref(da.heap, items)), Deref(da.heap, items))
  IN IF parents # "" THEN [da EXCEPT !.err = parents]
     ELSE With(ensureLocalPerspective(snap, da.heap, items, proceedOnError), LAMBDA lp :
       IF lp.err # "" THEN [da EXCEPT !.err = lp.err]
       ELSE IF lp.items # <<>> /\ perspective = localPerspective
            THEN [da EXCEPT !.err = "local duplicates created"]
       ELSE With(ensureOneHead(lp.heap, IF lp.items # <<>> THEN lp.items ELSE items), LAMBDA oh :
         IF oh.crash THEN [da EXCEPT !.crash = TRUE]
         ELSE With(mergeNewHeads(snap, oh.heap, lp.newItems, oh.newHeads, newRoots, da.gen,
                                 proceedOnError), LAMBDA mh :
           IF mh.err # "" THEN [da EXCEPT !.err = mh.err]
           ELSE [da EXCEPT !.heap = mh.heap, !.gen = mh.gen,
                           !.localItems = da.localItems \o lp.items \o mh.added])))

RECURSIVE ensureDAGs(_, _, _, _, _, _, _)
ensureDAGs(snap, da, ids, dags, newRoots, perspective, proceedOnError) ==
  IF ids = <<>> \/ da.err # "" \/ da.crash THEN da
  ELSE ensureDAGs(snap,
         ensureOneDAG(snap, da, dags[Head(ids)], newRoots, perspective, proceedOnError),
         Tail(ids), dags, newRoots, perspective, proceedOnError)

\* the final callback of async.eachSeries over the DAGs: an error ends the pipeline
\* before _ensureIntoSnapshot and _syncLocalHeadsWithCollection write anything
\* the same with the writes made whatever the DAGs gave
writesAnyway(err, db, written) == written
afterDAGs(err, db, written) == IF err # "" THEN db ELSE written

\* db = [snapshot, collection, lastReturnedInc, gen]; returns [err, crash, db]
ensureAllInDAG(db, newItems, proceedOnError) ==
  LET perspective == newItems[1].pe
      all == [k \in DOMAIN newItems |-> k]
      result(e, c, d) == [err |-> e, crash |-> c, db |-> d]
  IN IF newItems = <<>> THEN result("", FALSE, db)
     ELSE IF \E k \in DOMAIN newItems : newItems[k].pe # perspective
          THEN result("perspective mismatch", FALSE, db)
     ELSE With(checkAncestry([k \in DOMAIN newItems |-> [ensureM3(newItems[k]) EXCEPT !.ref = k]]),
               LAMBDA ca :
       IF ca.err # "" THEN result(ca.err, FALSE, db)
       ELSE With(ensureDAGs(db.snapshot,
                   [err |-> "", crash |-> FALSE, heap |-> ca.heap, gen |-> db.gen,
                    localItems |-> IF perspective = localPerspective THEN all ELSE <<>>],
                   ca.ids, ca.dags, ca.newRoots, perspective, proceedOnError), LAMBDA da :
         IF da.crash THEN result("", TRUE, db)
         ELSE result(da.err, FALSE,
                afterDAGs(da.err, db,
                  With(ensureIntoSnapshot(db.snapshot, db.lastReturnedInc, perspective, da.heap,
                         da.localItems, IF perspective = localPerspective THEN <<>> ELSE all),
                       LAMBDA ins :
                    [snapshot |-> ins.snap,
                     collection |-> syncLocalHeadsWithCollection(db.collection,
                                      Deref(ins.heap, ins.newLocalHeads)),
                     lastReturnedInc |-> ins.inc,
                     gen |-> da.gen])))))

-----------------------------------------------------------------------------
(* Applying oplog items. An oplog item is [op, id, v, b, mod, ts]: v is the value *)
(* of the version key in o (NoV if o has none), b the other attributes of o, and  *)
(* mod tells that o is an update document with modifiers ({ $set: b }).           *)

\* versionDoc followed by the assignments the callers make to _id._pa and _m3
versionDoc(id, version, pa, b, d, ack, ts, c) ==
  [id |-> id, v |-> version, pe |-> localPerspective, pa |-> pa, d |-> d, lo |-> TRUE,
   i |-> 0, c |-> c, ack |-> ack, op |-> ts, b |-> b, m3 |-> TRUE, ref |-> 0]

findLastAckdOrLocallyCreated(snap, id) ==
  lastByI(snap, id, TRUE)

\* compareDAGItemWithCollectionItem: same id and version, equal attributes
compareDAGItemWithCollectionItem(dagItem, o) ==
  dagItem.id = o.id /\ dagItem.v = o.v /\ dagItem.b = o.b

\* _setAckd: update the first document that matches (id, v, pe)
setAckd(snap, id, version, pe, ts) ==
  LET k == CHOOSE k \in DOMAIN snap :
             /\ snap[k].id = id /\ snap[k].v = version /\ snap[k].pe = pe
             /\ \A j \in 1..(k - 1) : ~(snap[j].id = id /\ snap[j].v = version /\ snap[j].pe = pe)
  IN [snap EXCEPT ![k].ack = TRUE, ![k].op = ts]

\* the document the update modifiers produce in the temporary collection
applyModifier(b, set) ==
  [k \in DOMAIN b \cup DOMAIN set |-> IF k \in DOMAIN set THEN set[k] ELSE b[k]]

failed(e, db) == [err |-> e, crash |-> FALSE, db |-> db]

\* ensureAllInDAG([{ item: newObj }]) after a version was drawn for newObj
ensureNewVersion(db, newObj, drawn, proceedOnError) ==
  With(ensureAllInDAG([db EXCEPT !.gen = db.gen + drawn], <<newObj>>, proceedOnError),
       LAMBDA r : IF r.err # "" THEN failed(r.err, db) ELSE r)

\* _applyOplogUpdateFullDoc, also used for inserts
\* the same without the lookup of the item with the version of o
withoutEchoLookup(db, o, proceedOnError) ==
  LET item2 == findLastAckdOrLocallyCreated(db.snapshot, o.id)
      fresh == GenVersions[db.gen + 1]
  IN IF o.op = "i" /\ item2 = <<>>
     THEN ensureNewVersion(db,
            versionDoc(o.id, IF o.v # NoV THEN o.v ELSE fresh, <<>>, o.b, FALSE, FALSE, o.ts, FALSE),
            IF o.v # NoV THEN 0 ELSE 1, proceedOnError)
     ELSE IF o.op = "u" /\ item2 = <<>> THEN failed("previous version of item not found", db)
     ELSE IF o.op = "i" /\ ~item2[1].d THEN failed("previous version of item not a deletion", db)
     ELSE ensureNewVersion(db,
            versionDoc(o.id, fresh, <<item2[1].v>>, o.b, FALSE, FALSE, o.ts, FALSE),
            1, proceedOnError)

applyOplogUpdateFullDoc(db, o, proceedOnError) ==
  LET snap == db.snapshot
      found == SelectSeq(snap, LAMBDA z : z.id = o.id /\ z.v = o.v /\ z.pe = localPerspective)
      item2 == findLastAckdOrLocallyCreated(snap, o.id)
      fresh == GenVersions[db.gen + 1]
  IN IF o.v # NoV /\ found # <<>> /\ compareDAGItemWithCollectionItem(found[1], o)
     THEN [err |-> "", crash |-> FALSE,
           db |-> [db EXCEPT !.snapshot = setAckd(snap, o.id, o.v, localPerspective, o.ts)]]
     ELSE IF o.op = "i" /\ item2 = <<>>
     THEN ensureNewVersion(db,
            versionDoc(o.id, IF o.v # NoV THEN o.v ELSE fresh, <<>>, o.b, FALSE, FALSE, o.ts, FALSE),
            IF o.v # NoV THEN 0 ELSE 1, proceedOnError)
     ELSE IF o.op = "u" /\ item2 = <<>> THEN failed("previous version of item not found", db)
     ELSE IF o.op = "i" /\ ~item2[1].d THEN failed("previous version of item not a deletion", db)
     ELSE ensureNewVersion(db,
            versionDoc(o.id, fresh, <<item2[1].v>>, o.b, FALSE, FALSE, o.ts, FALSE),
            1, proceedOnError)

\* _applyOplogUpdateModifier with _createNewVersionByUpdateDoc
applyOplogUpdateModifier(db, o, proceedOnError) ==
  LET head == findLastAckdOrLocallyCreated(db.snapshot, o.id)
  IN IF head = <<>> THEN failed("previous version of doc not found", db)
     ELSE ensureNewVersion(db,
            versionDoc(o.id, GenVersions[db.gen + 1], <<head[1].v>>,
                       applyModifier(head[1].b, o.b), FALSE, FALSE, o.ts, head[1].c),
            1, proceedOnError)

\* _applyOplogDeleteItem
applyOplogDeleteItem(db, o, proceedOnError) ==
  LET p == findLastAckdOrLocallyCreated(db.snapshot, o.id)
  IN IF p = <<>> THEN failed("previous version of doc not found", db)
     ELSE ensureNewVersion(db,
            versionDoc(o.id, GenVersions[db.gen + 1], <<p[1].v>>, p[1].b, TRUE, TRUE, o.ts, FALSE),
            1, proceedOnError)

\* _applyOplogItem: returns [err, crash, db]
applyOplogItem(db, o, proceedOnError) ==
  IF o.op = "u" /\ ~o.mod THEN applyOplogUpdateFullDoc(db, o, proceedOnError)
  ELSE IF o.op = "i" THEN applyOplogUpdateFullDoc(db, o, proceedOnError)
  ELSE IF o.op = "u" THEN applyOplogUpdateModifier(db, o, proceedOnError)
  ELSE IF o.op = "d" THEN applyOplogDeleteItem(db, o, proceedOnError)
  ELSE failed("unsupported operator", db)

-----------------------------------------------------------------------------
(* The object's state as one record, so that a handler can be followed through *)
(* the calls it makes.                                                         *)

Perspectives == {"r1", "r2"}

State ==
  [snapshot |-> snapshot, collection |-> collection, lastReturnedInc |-> lastReturnedInc,
   gen |-> gen, remotes |-> remotes, remoteQueues |-> remoteQueues,
   oplogBuffer |-> oplogBuffer, locked |-> locked, run |-> run, timers |-> timers,
   cbs |-> cbs, afterCbs |-> afterCbs, deferred |-> deferred, handed |-> handed,
   accepted |-> accepted, applied |-> applied, crashed |-> crashed, lastCb |-> lastCb,
   skipped |-> skipped, stepped |-> stepped, stopping |-> stopping,
   unread |-> unread]

Becomes(st) ==
  /\ snapshot' = st.snapshot /\ collection' = st.collection
  /\ lastReturnedInc' = st.lastReturnedInc /\ gen' = st.gen
  /\ remotes' = st.remotes /\ remoteQueues' = st.remoteQueues
  /\ oplogBuffer' = st.oplogBuffer /\ locked' = st.locked /\ run' = st.run
  /\ timers' = st.timers /\ cbs' = st.cbs /\ afterCbs' = st.afterCbs
  /\ deferred' = st.deferred /\ handed' = st.handed /\ accepted' = st.accepted
  /\ applied' = st.applied /\ crashed' = st.crashed /\ lastCb' = st.lastCb
  /\ skipped' = st.skipped /\ stepped' = st.stepped /\ stopping' = st.stopping
  /\ unread' = st.unread
  /\ UNCHANGED <<cfg, called, returned, reader, mergeTree>>

dbOf(st) == [snapshot |-> st.snapshot, collection |-> st.collection,
             lastReturnedInc |-> st.lastReturnedInc, gen |-> st.gen]

\* the oplog entries MongoDB writes for the documents of the collection that differ
\* between before and after: a removal, an insert or an update with the whole document
RECURSIVE oplogOf(_, _, _, _)
oplogOf(before, after, ids, ts) ==
  IF ids = <<>> THEN <<>>
  ELSE LET id == Head(ids)
           entry == [kind |-> "oplog", pe |-> "", id |-> id, mod |-> FALSE, ts |-> ts,
                     op |-> IF ~after[id].present THEN "d"
                            ELSE IF before[id].present THEN "u" ELSE "i",
                     v |-> after[id].v,
                     b |-> IF after[id].present THEN after[id].b ELSE Bx(0)]
       IN (IF before[id] = after[id] THEN <<>> ELSE <<entry>>)
            \o oplogOf(before, after, Tail(ids), ts)

withDb(st, db) == [st EXCEPT !.snapshot = db.snapshot, !.collection = db.collection,
                             !.unread = IF cfg.tailing
                                      THEN @ \o oplogOf(st.collection, db.collection, IdOrder,
                                                        Len(db.snapshot))
                                      ELSE @,
                             !.lastReturnedInc = db.lastReturnedInc, !.gen = db.gen]

\* the caller's cb / afterCb is invoked
callCb(st, n, res) == [st EXCEPT !.cbs[n] = IF @ = "none" THEN res ELSE "twice"]
callAfterCb(st, n, res) == [st EXCEPT !.afterCbs[n] = @ \cup {res}]

RECURSIVE callAfterCbs(_, _, _)
callAfterCbs(st, items, res) ==
  IF items = <<>> THEN st
  ELSE callAfterCbs(callAfterCb(st, Head(items).tag, res), Tail(items), res)

-----------------------------------------------------------------------------
(* saveRemoteItem, saveOplogItem and their retry *)

addRemote(st, remote) ==
  [st EXCEPT !.remotes = Append(@, remote), !.remoteQueues[remote] = <<>>]

removeRemote(st, remote) ==
  [st EXCEPT !.remotes = Without(@, remote), !.remoteQueues[remote] = <<>>]

\* this._queueLimit <= queue.length, and the same test with < for <=
queueFullOffByOne(limit, length) == limit < length
queueFull(limit, length) == limit <= length

\* saveRemoteItem(item, afterCb, cb) as call number n
saveRemoteItem(st, inp, n) ==
  LET st1 == IF Contains(st.remotes, inp.pe) THEN st ELSE addRemote(st, inp.pe)
  IN IF inp.pe = localPerspective THEN callCb(st, n, "err")
     ELSE IF queueFull(cfg.queueLimit, Len(st1.remoteQueues[inp.pe]))
          THEN [st1 EXCEPT !.timers = Append(@, [inp |-> inp, tag |-> n]),
                           !.deferred = @ \cup {n}]
          ELSE callCb([st1 EXCEPT !.remoteQueues[inp.pe] =
                         Append(@, [item |-> RemoteItem(inp.v, inp.pe), tag |-> n])], n, "ok")

\* VersionedCollection.invalidOplogItem for an item that has every field: the
\* operation is "i", "u" or "d"
\* every operation is taken
anyOp(item) == ""

invalidOplogItem(item) ==
  IF item.op \notin {"i", "u", "d"} THEN "invalid item.op" ELSE ""

\* saveOplogItem(item, afterCb, cb) as call number n
saveOplogItem(st, inp, n) ==
  IF invalidOplogItem(inp) # "" THEN callCb(st, n, "err")
  ELSE IF queueFull(cfg.queueLimit, Len(st.oplogBuffer))
  THEN [st EXCEPT !.timers = Append(@, [inp |-> inp, tag |-> n]), !.deferred = @ \cup {n}]
  ELSE callCb([st EXCEPT !.oplogBuffer =
                         Append(@, [item |-> [inp EXCEPT !.ts = IF @ = 0 THEN n ELSE @],
                                    tag |-> n, done |-> FALSE]),
                         !.accepted = Append(@, n)], n, "ok")

-----------------------------------------------------------------------------
(* processQueues, _processOplogQueue, _processRemoteQueues. A run in progress is *)
(* [phase, k, remote, items, auto]: in phase "oplog" the k-th entry of the oplog  *)
(* buffer is being applied, in phase "remote" the batch items taken from the      *)
(* queue of the k-th remote is in the pipeline, in phase "tick" the run found     *)
(* nothing to do and unlocks on the next tick; len is the length the oplog buffer *)
(* had when the run started.                                                      *)

Run(phase, k, remote, items, auto) ==
  [phase |-> phase, k |-> k, remote |-> remote, items |-> items, auto |-> auto, len |-> 0]

dropRun(runs, ri) == SubSeq(runs, 1, ri - 1) \o SubSeq(runs, ri + 1, Len(runs))

\* stopAutoProcessing was not called: cleared tells that the interval is cleared,
\* phase is "none", "waiting" for the lock, "running" processQueues or "done" when cb
\* was called, queued the calls whose items were queued when it was called
NotStopping == [cleared |-> FALSE, phase |-> "none", queued |-> {}]

\* if (this._locked) in processQueues, and the same test left out
alreadyProcessingNever(l) == FALSE
alreadyProcessing(l) == l

\* if (item.done) in _processOplogQueue, and the same test left out
skipDoneNever(entry) == FALSE
skipDone(entry) == entry.done

\* the run calls back: the lock is released first; the callback of the auto
\* processor throws the error it gets
finish(st, ri, err) ==
  [st EXCEPT !.locked = FALSE,
             !.lastCb = IF err = "" THEN "ok" ELSE err,
             !.run = dropRun(@, ri),
             !.crashed = err # "" /\ st.run[ri].auto]

\* a callback of the run has run; the run that stopAutoProcessing started calls the
\* cb of stopAutoProcessing when it calls back
step(st) ==
  [st EXCEPT !.stepped = ~@,
             !.stopping.phase = IF @ = "running" /\ st.run = <<>> /\ ~st.crashed THEN "done"
                                ELSE @]

Tags(items) == [j \in DOMAIN items |-> items[j].tag]

Min(a, b) == IF a <= b THEN a ELSE b

\* async.eachSeries(this._remotes, ...): from the k-th remote on, take the next
\* batch off its queue and hand it to _ensureAllInDAG; an empty batch is done at once
RECURSIVE nextRemote(_, _, _)
nextRemote(st, ri, k) ==
  IF k > Len(st.remotes) THEN finish(st, ri, "")
  ELSE LET remote == st.remotes[k]
           queue == st.remoteQueues[remote]
           n == Min(cfg.processBatchSize, Len(queue))
           items == SubSeq(queue, 1, n)
           st1 == [st EXCEPT !.remoteQueues[remote] = SubSeq(queue, n + 1, Len(queue)),
                             !.handed[remote] = @ \o Tags(items)]
       IN IF items = <<>> THEN nextRemote(st1, ri, k + 1)
          ELSE [st1 EXCEPT !.run[ri] = Run("remote", k, remote, items, st.run[ri].auto)]

\* async.eachSeries(this._oplogBuffer, ...): from the k-th entry on, pass the entries
\* that are done and start applying the next; at the end the buffer is reset and
\* the remote queues follow
\* the number of entries async.eachSeries(this._oplogBuffer, ...) goes through: the
\* length of the array is read again after every entry
\* the same with the length the array had when the run started
lengthAtStart(st, ri) == st.run[ri].len
seriesLength(st, ri) == Len(st.oplogBuffer)

RECURSIVE nextOplog(_, _, _)
nextOplog(st, ri, k) ==
  IF k > seriesLength(st, ri) THEN nextRemote([st EXCEPT !.oplogBuffer = <<>>], ri, 1)
  ELSE IF skipDone(st.oplogBuffer[k]) THEN nextOplog(st, ri, k + 1)
  ELSE [st EXCEPT !.run[ri] = [Run("oplog", k, "", <<>>, st.run[ri].auto)
                                 EXCEPT !.len = st.run[ri].len]]

\* processQueues(cb) when the lock is free
processQueues(st, auto) ==
  LET ri == Len(st.run) + 1
      newRemoteItems == \E r \in Range(st.remotes) : st.remoteQueues[r] # <<>>
      st1 == [st EXCEPT !.locked = TRUE,
                        !.run = Append(@, [Run("tick", 0, "", <<>>, auto) EXCEPT
                                             !.len = Len(st.oplogBuffer)])]
  IN IF ~newRemoteItems /\ st.oplogBuffer = <<>> THEN st1 ELSE nextOplog(st1, ri, 1)

\* the callback of _applyOplogItem in _processOplogQueue
oplogItemApplied(st, ri) ==
  LET k == st.run[ri].k
      entry == st.oplogBuffer[k]
  IN With(applyOplogItem(dbOf(st), entry.item, cfg.proceedOnError), LAMBDA r :
       IF r.crash THEN [st EXCEPT !.crashed = TRUE]
       ELSE IF r.err # "" THEN finish(callAfterCb(st, entry.tag, "err"), ri, r.err)
       ELSE nextOplog(callAfterCb([withDb(st, r.db) EXCEPT !.oplogBuffer[k].done = TRUE,
                                                         !.applied = Append(@, entry.tag)],
                                  entry.tag, "ok"), ri, k + 1))

\* the callback of _ensureAllInDAG in _processRemoteQueues
remoteItemsEnsured(st, ri) ==
  LET items == st.run[ri].items
  IN With(ensureAllInDAG(dbOf(st), [j \in DOMAIN items |-> items[j].item], cfg.proceedOnError),
          LAMBDA r :
       IF r.crash THEN [st EXCEPT !.crashed = TRUE]
       ELSE IF r.err # ""
            THEN finish(removeRemote(callAfterCbs(withDb(st, r.db), items, "err"),
                                     st.run[ri].remote), ri, r.err)
            ELSE nextRemote(callAfterCbs(withDb(st, r.db), items, "ok"), ri, st.run[ri].k + 1))

-----------------------------------------------------------------------------
(* What the environment submits *)

RemoteInput(pe, version) ==
  [kind |-> "remote", pe |-> pe, v |-> version, op |-> "", id |-> "", b |-> Bx(0),
   mod |-> FALSE, ts |-> 0]

OplogInput(op, id, version, b, mod) ==
  [kind |-> "oplog", pe |-> "", v |-> version, op |-> op, id |-> id, b |-> b,
   mod |-> mod, ts |-> 0]

Options(proceedOnError, queueLimit, processBatchSize, auto, feed) ==
  [proceedOnError |-> proceedOnError, queueLimit |-> queueLimit,
   processBatchSize |-> processBatchSize, auto |-> auto, feed |-> feed, stored |-> <<>>,
   tailing |-> FALSE]

\* a version as the snapshot collection holds it
StoredItem(ver, pe, i, c) == [RemoteItem(ver, pe) EXCEPT !.i = i, !.c = c]

\* one peer sending the versions of a document that branches twice
Branching ==
  Options(FALSE, 8, 8, FALSE,
          {RemoteInput("r1", "A"), RemoteInput("r1", "B"), RemoteInput("r1", "D"),
           RemoteInput("r1", "E")})

\* one peer sending versions that merge without conflict
Merging ==
  Options(FALSE, 8, 8, FALSE,
          {RemoteInput("r1", "A"), RemoteInput("r1", "B"), RemoteInput("r1", "C"),
           RemoteInput("r1", "M")})

\* a peer that deleted the document and a peer that creates it anew
Recreating ==
  Options(FALSE, 8, 8, FALSE,
          {RemoteInput("r2", "A"), RemoteInput("r2", "T"), RemoteInput("r1", "R")})

\* a peer that sends a deletion and an update of the same version
Deleting ==
  Options(FALSE, 8, 8, FALSE,
          {RemoteInput("r1", "A"), RemoteInput("r1", "B"), RemoteInput("r1", "T")})

\* errors of one id do not stop the batch
Proceeding ==
  Options(TRUE, 8, 8, FALSE,
          {RemoteInput("r1", "A"), RemoteInput("r1", "R"), RemoteInput("r1", "Z")})

\* short queues, the oplog reader and the auto processor
Queueing ==
  Options(FALSE, 2, 1, TRUE,
          {RemoteInput("r1", "A"),
           OplogInput("i", "d2", "Z", Bx(7), FALSE),
           OplogInput("u", "d1", NoV, Bx(4), FALSE)})

\* a snapshot that holds two conflicting branches, and a peer that sends two merges of them
Resolving ==
  [Options(FALSE, 8, 8, FALSE, {RemoteInput("r1", "F"), RemoteInput("r1", "G")})
     EXCEPT !.stored = <<StoredItem("A", "r1", 0, FALSE), StoredItem("B", "r1", 0, FALSE),
                         StoredItem("D", "r1", 0, FALSE), StoredItem("A", localPerspective, 1, FALSE),
                         StoredItem("B", localPerspective, 2, FALSE),
                         StoredItem("D", localPerspective, 3, TRUE)>>]

\* a snapshot that ends in a tombstone, and a peer that sends a new root and its successor
Reviving ==
  [Options(FALSE, 8, 8, FALSE, {RemoteInput("r1", "R"), RemoteInput("r1", "S")})
     EXCEPT !.stored = <<StoredItem("A", "r2", 0, FALSE), StoredItem("T", "r2", 0, FALSE),
                         StoredItem("A", localPerspective, 1, FALSE),
                         StoredItem("T", localPerspective, 2, FALSE)>>]

Scenarios == {Branching, Merging, Recreating, Deleting, Resolving, Reviving, Proceeding, Queueing}

\* no MergeTree constructed
NoTree == [made |-> FALSE]

\* no reader constructed
NoReader == [made |-> FALSE]

\* no call of a merge function
NoArgs == [fn |-> "", dag |-> <<>>, x |-> 0, y |-> 0, a |-> <<>>, b |-> <<>>, lca |-> <<>>,
           lcaB |-> <<>>]
NoResult == [done |-> FALSE, err |-> "", lcas |-> <<>>, conflict |-> FALSE, conflicts |-> {},
             b |-> <<>>, vs |-> <<>>]

-----------------------------------------------------------------------------
(* Actions *)

SaveRemoteItem ==
  /\ ~crashed /\ calls < MaxCalls
  /\ \E inp \in cfg.feed :
       /\ inp.kind = "remote"
       /\ Becomes(saveRemoteItem(State, inp, calls + 1))
  /\ calls' = calls + 1

SaveOplogItem ==
  /\ ~crashed /\ calls < MaxCalls
  /\ \E inp \in cfg.feed :
       /\ inp.kind = "oplog"
       /\ Becomes(saveOplogItem(State, inp, calls + 1))
  /\ calls' = calls + 1

\* the setTimeout callback of a save that found its queue full
RetryTimer ==
  /\ ~crashed /\ timers # <<>>
  /\ LET t == Head(timers)
         st == [State EXCEPT !.timers = Tail(@)]
     IN Becomes(IF t.inp.kind = "remote" THEN saveRemoteItem(st, t.inp, t.tag)
                ELSE saveOplogItem(st, t.inp, t.tag))
  /\ UNCHANGED calls

ProcessQueues ==
  /\ ~crashed /\ ~alreadyProcessing(locked)
  /\ Becomes(processQueues(State, FALSE))
  /\ UNCHANGED calls

ProcessQueuesLocked ==
  /\ ~crashed /\ alreadyProcessing(locked)
  /\ Becomes([State EXCEPT !.lastCb = "already processing queues"])
  /\ UNCHANGED calls

\* the setInterval callback of startAutoProcessing
AutoTick ==
  /\ ~crashed /\ cfg.auto /\ ~stopping.cleared /\ ~locked
  /\ Becomes([processQueues(State, TRUE) EXCEPT !.skipped = FALSE])
  /\ UNCHANGED calls

AutoTickSkip ==
  /\ ~crashed /\ cfg.auto /\ ~stopping.cleared /\ locked
  /\ Becomes([State EXCEPT !.skipped = TRUE])
  /\ UNCHANGED calls

\* the nextTick callback of a processQueues call that found nothing queued
EmptyTick ==
  /\ ~crashed
  /\ \E ri \in DOMAIN run :
       /\ run[ri].phase = "tick"
       /\ Becomes(step(finish(State, ri, "")))
  /\ UNCHANGED calls

OplogStep ==
  /\ ~crashed
  /\ \E ri \in DOMAIN run :
       /\ run[ri].phase = "oplog" /\ run[ri].k <= Len(oplogBuffer)
       /\ Becomes(step(oplogItemApplied(State, ri)))
  /\ UNCHANGED calls

RemoteStep ==
  /\ ~crashed
  /\ \E ri \in DOMAIN run :
       /\ run[ri].phase = "remote"
       /\ Becomes(step(remoteItemsEnsured(State, ri)))
  /\ UNCHANGED calls

\* the object after construction on the stored snapshot
Constructed ==
  /\ snapshot = cfg.stored
  /\ collection = syncLocalHeadsWithCollection([id \in Ids |-> NoDoc],
                     SelectSeq(cfg.stored, LAMBDA z : z.pe = localPerspective /\ ~z.c))
  /\ lastReturnedInc = 0
  /\ gen = 0
  /\ remotes = <<>>
  /\ remoteQueues = [p \in Perspectives |-> <<>>]
  /\ oplogBuffer = <<>>
  /\ locked = FALSE
  /\ run = <<>>
  /\ timers = <<>>
  /\ calls = 0
  /\ cbs = [n \in 1..MaxCalls |-> "none"]
  /\ afterCbs = [n \in 1..MaxCalls |-> {}]
  /\ deferred = {}
  /\ handed = [p \in Perspectives |-> <<>>]
  /\ accepted = <<>>
  /\ applied = <<>>
  /\ crashed = FALSE
  /\ lastCb = "none"
  /\ skipped = FALSE
  /\ stepped = FALSE
  /\ stopping = NotStopping
  /\ unread = <<>>
  /\ called = NoArgs
  /\ returned = NoResult
  /\ reader = NoReader
  /\ mergeTree = NoTree

Init ==
  /\ cfg \in Scenarios
  /\ Constructed

Next ==
  \/ SaveRemoteItem
  \/ SaveOplogItem
  \/ RetryTimer
  \/ ProcessQueues
  \/ ProcessQueuesLocked
  \/ AutoTick
  \/ AutoTickSkip
  \/ EmptyTick
  \/ OplogStep
  \/ RemoteStep

Spec == Init /\ [][Next]_vars

\* the callback a run in progress waits for: EmptyTick, OplogStep or RemoteStep
RunStep == ~crashed /\ run # <<>> /\ stepped' = ~stepped

\* the timers fire and the callback a run in progress waits for comes
Fairness ==
  /\ WF_vars(RetryTimer)
  /\ WF_stepped(RunStep)

FairInit == Init /\ cfg = Queueing

FairSpec == FairInit /\ [][Next]_vars /\ Fairness

-----------------------------------------------------------------------------
(* Properties *)

quiescent == run = <<>> /\ ~crashed

Docs(id, pe) == {k \in DOMAIN snapshot : snapshot[k].id = id /\ snapshot[k].pe = pe}

hasVersion(id, pe, version) == \E k \in Docs(id, pe) : snapshot[k].v = version

\* C1: once no run is in progress, every node stored under a remote perspective
\* has a node of the same id and version under the local perspective
C1_RemoteHasLocal ==
  quiescent =>
    \A k \in DOMAIN snapshot :
      snapshot[k].pe # localPerspective
        => hasVersion(snapshot[k].id, localPerspective, snapshot[k].v)

\* the versions of the heads of the local DAG of id that are neither deleted nor
\* flagged as conflict
openHeads(id) ==
  {snapshot[k].v : k \in
     {h \in Docs(id, localPerspective) :
        /\ ~snapshot[h].d /\ ~snapshot[h].c
        /\ \A j \in Docs(id, localPerspective) : ~Contains(snapshot[j].pa, snapshot[h].v)}}

\* C2: once no run is in progress, each local DAG has at most one head that is
\* neither a tombstone nor flagged as conflict
C2_OneOpenHead ==
  quiescent => \A id \in Ids : Cardinality(openHeads(id)) <= 1

nodes(snap) ==
  {[id |-> snap[k].id, v |-> snap[k].v, pe |-> snap[k].pe, pa |-> snap[k].pa,
    i |-> snap[k].i, c |-> snap[k].c, at |-> k] : k \in DOMAIN snap}

persisted(entry) == hasVersion(entry.item.id, entry.item.pe, entry.item.v)

\* C3: a batch of items that are all persisted already leaves the nodes of the
\* snapshot as they are
C3_Idempotent ==
  [][(\E ri \in DOMAIN run :
        /\ run[ri].phase = "remote"
        /\ \A j \in DOMAIN run[ri].items : persisted(run[ri].items[j]))
     => nodes(snapshot') = nodes(snapshot)]_vars

\* C4: every persisted node has all of its parents in the DAG of its own id and
\* perspective
C4_ParentsPresent ==
  \A k \in DOMAIN snapshot :
    \A j \in DOMAIN snapshot[k].pa :
      hasVersion(snapshot[k].id, snapshot[k].pe, snapshot[k].pa[j])

\* C5: within a local DAG the insertion index grows with the insertion order and
\* from every parent to its child
C5_IncrementsGrow ==
  \A id \in Ids :
    \A j, k \in Docs(id, localPerspective) :
      /\ j < k => snapshot[j].i < snapshot[k].i
      /\ Contains(snapshot[k].pa, snapshot[j].v) => snapshot[j].i < snapshot[k].i

\* C6: the items of a remote are handed to the pipeline in the order of the
\* saveRemoteItem calls that submitted them
C6_RemoteFifo ==
  \A p \in Perspectives :
    \A j, k \in DOMAIN handed[p] : j < k => handed[p][j] < handed[p][k]

isPrefix(s, t) == Len(s) <= Len(t) /\ \A j \in DOMAIN s : s[j] = t[j]

pipelineState == <<snapshot, collection, lastReturnedInc, remotes, remoteQueues, oplogBuffer,
                   handed, applied, run, locked>>

\* C8: at most one run is in progress; a processQueues call or an auto tick that
\* finds the lock set takes nothing from the queues and writes nothing; what is
\* saved during a run is put on its queue or kept for a retry, nothing else
C8_OneRunAtATime ==
  /\ [](Len(run) <= 1)
  /\ [][(locked /\ (ProcessQueuesLocked \/ AutoTickSkip)) => UNCHANGED pipelineState]_vars
  /\ [][(locked /\ (SaveRemoteItem \/ SaveOplogItem \/ RetryTimer))
          => /\ UNCHANGED <<snapshot, collection, handed, applied, run, locked>>
             /\ isPrefix(oplogBuffer, oplogBuffer')
             /\ \A p \in Perspectives : isPrefix(remoteQueues[p], remoteQueues'[p])]_vars

\* during a run a second call was turned away, a tick was skipped and an item waits
C8_Witness ==
  /\ locked /\ Len(run) = 1 /\ run[1].phase = "remote"
  /\ lastCb = "already processing queues"
  /\ skipped
  /\ \E p \in Perspectives : remoteQueues[p] # <<>>

runStarts == Len(run') > Len(run)

\* C9: a save that found its queue full is never answered with an error, and if
\* processQueues keeps being run its item is enqueued and its cb gets no error
C9_RetriedUntilEnqueued ==
  /\ [](\A n \in deferred : cbs[n] \in {"none", "ok"})
  /\ ([]<><<runStarts>>_vars) => \A n \in 1..MaxCalls : (n \in deferred) ~> (cbs[n] = "ok")

\* C10: no remote queue and not the oplog buffer ever holds more than queueLimit items
C10_QueuesBounded ==
  /\ Len(oplogBuffer) <= cfg.queueLimit
  /\ \A p \in Perspectives : Len(remoteQueues[p]) <= cfg.queueLimit

\* the oplog buffer is full, a save waits for its retry and a run has ended in an error
C10_Witness ==
  /\ Len(oplogBuffer) = cfg.queueLimit
  /\ timers # <<>>
  /\ lastCb = "previous version of item not found"

\* the nodes of the local DAG of id in snap that no local node of id names as a
\* parent and that are not flagged as conflict
localHeads(snap, id) ==
  {k \in DOMAIN snap :
     /\ snap[k].id = id /\ snap[k].pe = localPerspective /\ ~snap[k].c
     /\ \A j \in DOMAIN snap :
          (snap[j].id = id /\ snap[j].pe = localPerspective) => ~Contains(snap[j].pa, snap[k].v)}

\* the document of the plain collection that stands for a head
docOf(head) == IF head.d THEN NoDoc ELSE [v |-> head.v, b |-> head.b, present |-> TRUE]

\* a batch of a remote that _ensureAllInDAG has just ended without error
batchDone(ri) ==
  /\ run[ri].phase = "remote"
  /\ ~crashed'
  /\ "ok" \in afterCbs'[run[ri].items[1].tag]

touched(ri) == {run[ri].items[j].item.id : j \in DOMAIN run[ri].items}

\* C11: after a batch without error the plain collection holds, for every id of
\* the batch, the body and version of the id's local head, or no document when the
\* head is a tombstone, and never a version that is flagged as conflict
C11_CollectionReflectsHead ==
  [][\A ri \in DOMAIN run : batchDone(ri) =>
       \A id \in touched(ri) :
         /\ \A h \in localHeads(snapshot', id) :
              Cardinality(localHeads(snapshot', id)) = 1 => collection'[id] = docOf(snapshot'[h])
         /\ \A k \in DOMAIN snapshot' :
              (snapshot'[k].id = id /\ snapshot'[k].pe = localPerspective /\ snapshot'[k].c
               /\ collection'[id].present)
                => collection'[id].v # snapshot'[k].v]_vars

\* the batch of a remote ends the run with this error
batchFails(ri, err) ==
  /\ run[ri].phase = "remote"
  /\ Len(run') < Len(run)
  /\ lastCb' = err
  /\ "err" \in afterCbs'[run[ri].items[1].tag]

\* C12: a merge conflict never ends a batch in an error
C12_ConflictNotFatal ==
  [][\A ri \in DOMAIN run : ~batchFails(ri, "merge conflict")]_vars

\* the errors that concern one id only
PerIdErrors == {"root preceded", "parent not found", "no lca found",
                "different root already in snapshot"}

\* C13: with proceedOnError set no batch ends in an error of one id, and the items of the
\* batch that belong to the other ids are persisted
C13_ProceedOnError ==
  [][\A ri \in DOMAIN run :
       (cfg.proceedOnError /\ run[ri].phase = "remote" /\ ~crashed' /\ Len(run') < Len(run)) =>
         /\ lastCb' \notin PerIdErrors
         /\ \A j \in DOMAIN run[ri].items :
              run[ri].items[j].item.id # "d1" =>
                \E k \in DOMAIN snapshot' :
                  /\ snapshot'[k].id = run[ri].items[j].item.id
                  /\ snapshot'[k].v = run[ri].items[j].item.v
                  /\ snapshot'[k].pe = localPerspective]_vars

\* the item that precedes item j of the batch in the DAG of its id: the one before it in
\* the batch, or else the last version the local perspective holds; <<>> if there is none
previousTail(snap, items, j) ==
  LET id == items[j].item.id
      before == {n \in 1..(j - 1) : items[n].item.id = id}
  IN IF before # {} THEN <<items[CHOOSE n \in before : \A m \in before : m <= n].item>>
     ELSE IF lastByI(snap, id, FALSE) = <<>> THEN <<>> ELSE <<Head(lastByI(snap, id, FALSE))>>

\* item j of the batch is a root of a version the local perspective does not hold yet
newRoot(snap, items, j) ==
  /\ items[j].item.pa = <<>>
  /\ \A k \in DOMAIN snap :
       (snap[k].id = items[j].item.id /\ snap[k].pe = localPerspective) => snap[k].v # items[j].item.v
  /\ \A n \in 1..(j - 1) : items[n].item.id = items[j].item.id => items[n].item.v # items[j].item.v

\* C14: a new root that follows a tombstone is stored with the version of the tombstone as
\* its parent; a batch with a new root that follows any other item fails with
\* 'root preceded' and nothing of it is persisted
C14_RootAfterTombstoneOnly ==
  [][\A ri \in DOMAIN run :
       (run[ri].phase = "remote" /\ ~crashed' /\ Len(run') < Len(run)) =>
         \A j \in DOMAIN run[ri].items :
           LET items == run[ri].items
               tail == previousTail(snapshot, items, j)
           IN (newRoot(snapshot, items, j) /\ tail # <<>>) =>
                IF tail[1].d
                THEN lastCb' = "ok" =>
                       \A k \in DOMAIN snapshot' :
                         (snapshot'[k].id = items[j].item.id /\ snapshot'[k].v = items[j].item.v
                            /\ snapshot'[k].pe = localPerspective)
                           => snapshot'[k].pa = <<tail[1].v>>
                ELSE lastCb' = "root preceded" /\ snapshot' = snapshot]_vars

\* the versions of the local perspective of id that are linked to those in seen through _pa
RECURSIVE component(_, _, _)
component(snap, K, seen) ==
  LET more == {k \in K \ seen : \E n \in seen : \/ Contains(snap[k].pa, snap[n].v)
                                                 \/ Contains(snap[n].pa, snap[k].v)}
  IN IF more = {} THEN seen ELSE component(snap, K, seen \cup more)

connected(snap, id) ==
  LET K == {k \in DOMAIN snap : snap[k].id = id /\ snap[k].pe = localPerspective}
  IN K = {} \/ component(snap, K, {CHOOSE k \in K : TRUE}) = K

\* C15: the versions the local perspective holds of one id are all linked through _pa
C15_LocalDAGConnected ==
  \A id \in Ids : connected(snapshot, id)

-----------------------------------------------------------------------------
(* The merge functions applied to arguments of their own *)

DagVersions == <<"A", "B", "C", "D", "E", "F", "G">>

\* version n of a DAG of one id under one perspective, with the given parents
DagItem(n, pa) ==
  [id |-> "d1", v |-> DagVersions[n], pe |-> localPerspective, pa |-> pa, d |-> FALSE,
   lo |-> FALSE, i |-> n, c |-> FALSE, ack |-> FALSE, op |-> 0, b |-> Bx(n), m3 |-> TRUE,
   ref |-> 0]

\* one or two of the first m versions
ParentChoices(m) ==
  {<<DagVersions[p]>> : p \in 1..m}
    \cup {<<DagVersions[pq[1]], DagVersions[pq[2]]>> :
            pq \in {pq \in (1..m) \X (1..m) : pq[1] < pq[2]}}

\* the DAGs of n versions with one root, in insertion order
RECURSIVE Dags(_)
Dags(n) ==
  IF n = 1 THEN {<<DagItem(1, <<>>)>>}
  ELSE {Append(g, DagItem(n, pa)) : g \in Dags(n - 1), pa \in ParentChoices(n - 1)}

Attributes == {"x", "y"}
Bodies == UNION {[S -> 1..MaxValue] : S \in SUBSET Attributes}

FindLCAsArgs ==
  {[NoArgs EXCEPT !.fn = "findLCAs", !.dag = g, !.x = x, !.y = y] :
     g \in UNION {Dags(n) : n \in 2..MaxNodes}, x \in 1..MaxNodes, y \in 1..MaxNodes}

ThreeWayMergeArgs ==
  {[NoArgs EXCEPT !.fn = "threeWayMerge", !.a = a, !.b = b, !.lca = l, !.lcaB = lb] :
     a \in Bodies, b \in Bodies, l \in Bodies, lb \in Bodies}

\* _findLCAs(itemX, itemY, cb)
FindLCAs ==
  /\ called.fn = "findLCAs" /\ ~returned.done
  /\ called.x <= Len(called.dag) /\ called.y <= Len(called.dag)
  /\ LET f == findLCAs(VC(called.dag, <<>>), called.dag[called.x], called.dag[called.y])
     IN returned' = [NoResult EXCEPT !.done = TRUE, !.err = f.err, !.lcas = f.lcas]
  /\ UNCHANGED <<cfg, snapshot, collection, lastReturnedInc, gen, remotes, remoteQueues,
                 oplogBuffer, locked, run, timers, calls, cbs, afterCbs, deferred, handed,
                 accepted, applied, crashed, lastCb, skipped, stepped, stopping, unread, called, reader,
                 mergeTree>>

\* _threeWayMerge(itemA, itemB, lca, lcaB)
ThreeWayMerge ==
  /\ called.fn = "threeWayMerge" /\ ~returned.done
  /\ LET m == threeWayMerge(called.a, called.b, called.lca, called.lcaB)
     IN returned' = [NoResult EXCEPT !.done = TRUE, !.conflict = m.conflict,
                                    !.conflicts = m.conflicts, !.b = m.b]
  /\ UNCHANGED <<cfg, snapshot, collection, lastReturnedInc, gen, remotes, remoteQueues,
                 oplogBuffer, locked, run, timers, calls, cbs, afterCbs, deferred, handed,
                 accepted, applied, crashed, lastCb, skipped, stepped, stopping, unread, called, reader,
                 mergeTree>>

\* two bodies and their lca, merged to get a version
VersionArgs ==
  {[NoArgs EXCEPT !.fn = fn, !.a = a, !.b = b, !.lca = l, !.lcaB = l] :
     fn \in {"mergeNewHeads", "versionContent"}, a \in Bodies, b \in Bodies, l \in Bodies}

\* the merge item _merge makes of two heads B and C with the bodies given
mergedHeads(a, b, lca) ==
  newMergeItem("d1", localPerspective, <<"B", "C">>, FALSE, threeWayMerge(a, b, lca, lca).b)

\* MergeTree.versionContent: the first bytes of the SHA-256 digest of the serialized item
versionContent(item) == <<"sha256", item.id, item.pa, item.d, item.b>>

\* the genuine merge of _mergeNewHeads, made twice of the same heads
MergeNewHeadsTwice ==
  /\ called.fn = "mergeNewHeads" /\ ~returned.done
  /\ ~threeWayMerge(called.a, called.b, called.lca, called.lcaB).conflict
  /\ \E r1 \in {GenVersions[1], GenVersions[2]}, r2 \in {GenVersions[1], GenVersions[2]} :
       LET merged == mergedHeads(called.a, called.b, called.lca)
       IN returned' = [NoResult EXCEPT !.done = TRUE, !.b = merged.b,
                                      !.vs = <<ensureVersion(merged, r1).v,
                                               ensureVersion(merged, r2).v>>]
  /\ UNCHANGED <<cfg, snapshot, collection, lastReturnedInc, gen, remotes, remoteQueues,
                 oplogBuffer, locked, run, timers, calls, cbs, afterCbs, deferred, handed,
                 accepted, applied, crashed, lastCb, skipped, stepped, stopping, unread, called, reader,
                 mergeTree>>

\* the merge of mergeWithLocal in the MergeTree, made twice of the same heads
VersionContentTwice ==
  /\ called.fn = "versionContent" /\ ~returned.done
  /\ ~threeWayMerge(called.a, called.b, called.lca, called.lcaB).conflict
  /\ LET merged == mergedHeads(called.a, called.b, called.lca)
     IN returned' = [NoResult EXCEPT !.done = TRUE, !.b = merged.b,
                                    !.vs = <<versionContent(merged), versionContent(merged)>>]
  /\ UNCHANGED <<cfg, snapshot, collection, lastReturnedInc, gen, remotes, remoteQueues,
                 oplogBuffer, locked, run, timers, calls, cbs, afterCbs, deferred, handed,
                 accepted, applied, crashed, lastCb, skipped, stepped, stopping, unread, called, reader,
                 mergeTree>>

CallInit ==
  /\ cfg = Branching
  /\ snapshot = <<>>
  /\ collection = [id \in Ids |-> NoDoc]
  /\ lastReturnedInc = 0
  /\ gen = 0
  /\ remotes = <<>>
  /\ remoteQueues = [p \in Perspectives |-> <<>>]
  /\ oplogBuffer = <<>>
  /\ locked = FALSE
  /\ run = <<>>
  /\ timers = <<>>
  /\ calls = 0
  /\ cbs = [n \in 1..MaxCalls |-> "none"]
  /\ afterCbs = [n \in 1..MaxCalls |-> {}]
  /\ deferred = {}
  /\ handed = [p \in Perspectives |-> <<>>]
  /\ accepted = <<>>
  /\ applied = <<>>
  /\ crashed = FALSE
  /\ lastCb = "none"
  /\ skipped = FALSE
  /\ stepped = FALSE
  /\ stopping = NotStopping
  /\ unread = <<>>
  /\ called \in FindLCAsArgs \cup ThreeWayMergeArgs \cup VersionArgs
  /\ returned = NoResult
  /\ reader = NoReader
  /\ mergeTree = NoTree

CallNext ==
  \/ FindLCAs
  \/ ThreeWayMerge
  \/ MergeNewHeadsTwice
  \/ VersionContentTwice

CallSpec == CallInit /\ [][CallNext]_vars

\* the versions of dag that version n descends from, n included
RECURSIVE ancestorsOrSelf(_, _)
ancestorsOrSelf(dag, n) ==
  {n} \cup UNION {ancestorsOrSelf(dag, p) : p \in {q \in 1..(n - 1) : Contains(dag[n].pa, dag[q].v)}}

lowestCommonAncestors(dag, x, y) ==
  LET common == ancestorsOrSelf(dag, x) \cap ancestorsOrSelf(dag, y)
  IN {dag[c].v : c \in {c \in common : \A e \in common : e # c => c \notin ancestorsOrSelf(dag, e)}}

\* C16: _findLCAs returns the lowest common ancestors of the two versions, all of them
\* and nothing else
C16_FindLCAsExact ==
  (called.fn = "findLCAs" /\ returned.done) =>
    /\ returned.err = ""
    /\ Range(returned.lcas) = lowestCommonAncestors(called.dag, called.x, called.y)

\* the state of attribute k in a body: its value, or 0 if the body does not have it
stateOf(body, k) == IF k \in DOMAIN body THEN body[k] ELSE 0

\* the three-way rule for one attribute: the state the merge takes, or -1 for a conflict
threeWayRule(sx, sy, sl) ==
  IF sx = sl THEN sy ELSE IF sy = sl THEN sx ELSE IF sx = sy THEN sx ELSE -1

singleLCA == called.fn = "threeWayMerge" /\ returned.done /\ called.lcaB = called.lca

\* C17: against one lca _threeWayMerge follows the three-way rule for every attribute and
\* returns the conflicting attributes if there are any, and the merged body otherwise
C17_ThreeWayRule ==
  singleLCA =>
    LET rule == [k \in Attributes |->
                   threeWayRule(stateOf(called.a, k), stateOf(called.b, k), stateOf(called.lca, k))]
        conflicting == {k \in Attributes : rule[k] = -1}
    IN /\ returned.conflict <=> conflicting # {}
       /\ returned.conflict => returned.conflicts = conflicting
       /\ ~returned.conflict =>
            /\ DOMAIN returned.b = {k \in Attributes : rule[k] # 0}
            /\ \A k \in DOMAIN returned.b : returned.b[k] = rule[k]

\* a merge of two bodies that both changed an attribute of the lca to different values
C17_Witness ==
  /\ singleLCA /\ returned.conflict
  /\ \E k \in DOMAIN called.lca :
       /\ k \in DOMAIN called.a /\ k \in DOMAIN called.b
       /\ called.a[k] # called.lca[k] /\ called.b[k] # called.lca[k] /\ called.a[k] # called.b[k]

\* C18: against one lca _threeWayMerge gives the same conflicts or the same body whichever
\* of the two items comes first, and an item merged with itself against itself is that item
C18_Commutative ==
  singleLCA =>
    LET swapped == threeWayMerge(called.b, called.a, called.lca, called.lca)
    IN /\ returned.conflict = swapped.conflict
       /\ returned.conflicts = swapped.conflicts
       /\ returned.b = swapped.b
       /\ (called.a = called.lca /\ called.b = called.lca) =>
            ~returned.conflict /\ returned.b = called.a

\* a merge without conflict of two bodies that differ from each other and from the lca
C18_Witness ==
  /\ singleLCA /\ ~returned.conflict
  /\ called.a # called.b /\ called.a # called.lca /\ called.b # called.lca
  /\ returned.b # called.a /\ returned.b # called.b

twoLCAs == called.fn = "threeWayMerge" /\ returned.done

\* k is in both the item and its lca with the same value
unchangedIn(k, item, lca) == k \in DOMAIN item /\ k \in DOMAIN lca /\ item[k] = lca[k]

\* k is new in the item and the other item has it with another value
addedOver(k, item, lca, other) ==
  /\ k \in DOMAIN item /\ k \notin DOMAIN lca
  /\ k \in DOMAIN other /\ other[k] # item[k]

\* C19: with an lca for each side, an attribute that itemA has unchanged and that itemB and
\* its lca do not have is kept, and an attribute that one side added and that the other
\* side has with another value is a conflict
C19_OwnLCA ==
  twoLCAs =>
    \A k \in Attributes :
      /\ (unchangedIn(k, called.a, called.lca) /\ k \notin DOMAIN called.b
            /\ k \notin DOMAIN called.lcaB) =>
           /\ k \notin returned.conflicts
           /\ ~returned.conflict => (k \in DOMAIN returned.b /\ returned.b[k] = called.a[k])
      /\ (addedOver(k, called.b, called.lcaB, called.a) \/ addedOver(k, called.a, called.lca, called.b)) =>
           returned.conflict /\ k \in returned.conflicts

\* a merged body that keeps an attribute only itemA and its lca have
C19_Witness ==
  /\ twoLCAs /\ ~returned.conflict /\ called.lca # called.lcaB
  /\ \E k \in Attributes :
       /\ unchangedIn(k, called.a, called.lca)
       /\ k \notin DOMAIN called.b /\ k \notin DOMAIN called.lcaB
       /\ k \in DOMAIN returned.b

\* C20: a merge made twice of the same two heads and the same lca gets the same version,
\* in _mergeNewHeads as well as in the MergeTree
C20_DeterministicVersion ==
  (called.fn \in {"mergeNewHeads", "versionContent"} /\ returned.done) =>
    returned.vs[1] = returned.vs[2]

-----------------------------------------------------------------------------
(* VersionedCollectionReader *)

\* the item of a DAG with the given version
itemOf(dag, v) == dag[CHOOSE k \in DOMAIN dag : dag[k].v = v]

versionsOf(dag) == {dag[k].v : k \in DOMAIN dag}

\* match(filter, item), the filter given by the versions whose attributes hold it
match(matching, item) == item.v \in matching

\* runHooks: the item after the hooks, or nothing when one of them filters it out
runHooks(dropped, item) == IF item.v \in dropped THEN <<>> ELSE <<item>>

\* walkBranch with the iterator of handleData: visit the given versions and their
\* ancestors, newest first, and stop at the first one the filter holds on
RECURSIVE walkBranchFirst(_, _, _)
walkBranchFirst(stream, frontier, matching) ==
  IF stream = <<>> THEN <<>>
  ELSE IF Head(stream).v \in frontier
       THEN IF match(matching, Head(stream)) THEN <<Head(stream).v>>
            ELSE walkBranchFirst(Tail(stream),
                                 (frontier \ {Head(stream).v}) \cup Range(Head(stream).pa),
                                 matching)
       ELSE walkBranchFirst(Tail(stream), frontier, matching)

\* the eachSeries over item._id._pa in handleData: take over the parent references
\* of an old head, or find the lowest filtered ancestor of a parent that is no head
RECURSIVE moveParents(_, _, _, _)
moveParents(opts, heads, v, pa) ==
  IF pa = <<>> THEN heads
  ELSE IF Head(pa) \in DOMAIN heads
       THEN moveParents(opts,
                        [w \in DOMAIN heads \ {Head(pa)} |->
                           IF w = v THEN heads[v] \o heads[Head(pa)] ELSE heads[w]],
                        v, Tail(pa))
       ELSE LET found == walkBranchFirst(Reverse(opts.dag), {Head(pa)}, opts.matching)
            IN moveParents(opts,
                           [heads EXCEPT ![v] =
                              IF found = <<>> \/ Contains(@, found[1]) THEN @
                              ELSE Append(@, found[1])],
                           v, Tail(pa))

\* what the reader pushes: the item with its perspective and local state removed
pushed(item, pa) == [ev |-> "data", v |-> item.v, pa |-> pa]
End == [ev |-> "end", v |-> NoV, pa |-> <<>>]
OffsetNotFound == [ev |-> "error", v |-> NoV, pa |-> <<>>]

\* the offset check at the start of handleData
offsetSeen(r, item) == r.offsetReached \/ item.v = r.opts.offset
offsetTries(r, item) == IF offsetSeen(r, item) THEN r.i ELSE r.i + 1
offsetNotFound(r, item) == ~offsetSeen(r, item) /\ offsetTries(r, item) >= r.maxTries

\* handleData(item, cb) up to its callback; proceed is what push returns
handleData(r, item, proceed) ==
  IF offsetNotFound(r, item) THEN [r EXCEPT !.i = offsetTries(r, item), !.err = TRUE]
  ELSE LET moved == moveParents(r.opts,
                                [w \in DOMAIN r.heads \cup {item.v} |->
                                   IF w = item.v THEN <<>> ELSE r.heads[w]],
                                item.v, item.pa)
           emit == match(r.opts.matching, item) /\ runHooks(r.opts.dropped, item) # <<>>
       IN [r EXCEPT !.i = offsetTries(r, item),
                    !.offsetReached = offsetSeen(r, item),
                    !.heads = IF emit THEN [moved EXCEPT ![item.v] = <<item.v>>] ELSE moved,
                    !.out = IF emit /\ offsetSeen(r, item)
                            THEN Append(@, pushed(item, moved[item.v])) ELSE @,
                    !.paused = IF emit /\ offsetSeen(r, item) /\ ~proceed THEN TRUE ELSE @]

\* queue.idle()
idle(r) == r.tasks = <<>> /\ r.worker = 0

\* queue.kill()
kill(r) == [r EXCEPT !.tasks = <<>>, !.drain = FALSE]

\* the 'close' listener of the source: end now, or as soon as the queue is drained
onClose(r) == IF idle(r) THEN [r EXCEPT !.out = Append(@, End)] ELSE [r EXCEPT !.drain = TRUE]

\* source.destroy(): the cursor stream emits 'close' the first time it is destroyed
destroy(r) == IF r.destroyed THEN r ELSE onClose([r EXCEPT !.destroyed = TRUE])

\* the callback of queue.push: on an error kill the queue, destroy the source and
\* emit the error
taskCallback(r) ==
  IF r.err THEN [destroy(kill(r)) EXCEPT !.out = Append(@, OffsetNotFound), !.err = FALSE]
  ELSE r

\* the queue after its worker called back: call the callback of the task, then drain
workerDone(r) ==
  LET after == taskCallback([r EXCEPT !.worker = 0])
  IN IF after.drain /\ idle(after) THEN [after EXCEPT !.out = Append(@, End)] ELSE after

\* new VersionedCollectionReader(snapshotCollection, opts); the options also say how
\* many items of other perspectives the collection holds and how often close is called
NewReader(opts) ==
  [made |-> TRUE, opts |-> opts, pos |-> 0, srcPaused |-> FALSE, destroyed |-> FALSE,
   tasks |-> <<>>, worker |-> 0, paused |-> TRUE, maxTries |-> 0, counted |-> FALSE,
   heads |-> [w \in {} |-> <<>>], offsetReached |-> opts.offset = "", i |-> 0,
   out |-> <<>>, drain |-> FALSE, closed |-> 0, err |-> FALSE]

ReaderOpts(dag, matching, dropped, offset, follow, others, closes) ==
  [dag |-> dag, matching |-> matching, dropped |-> dropped, offset |-> offset,
   follow |-> follow, others |-> others, closes |-> closes]

\* a merge with two children: A, B and C on A, D merging B and C, E and F on D
Forking ==
  <<DagItem(1, <<>>), DagItem(2, <<"A">>), DagItem(3, <<"A">>), DagItem(4, <<"B", "C">>),
    DagItem(5, <<"D">>), DagItem(6, <<"D">>)>>

ReaderDags(items) == UNION {Dags(n) : n \in 1..items}

\* a filter, with or without an offset that is in the tree
Filtered(dag) ==
  {ReaderOpts(dag, matching, {}, offset, FALSE, 0, 0) :
     matching \in SUBSET versionsOf(dag), offset \in {""} \cup versionsOf(dag)}

\* a hook that filters out one version
Hooked(dag) ==
  {ReaderOpts(dag, versionsOf(dag), {dropped}, "", FALSE, 0, 0) :
     dropped \in versionsOf(dag)}

\* an offset, in the tree or not, next to items of other perspectives
Offset(dag) ==
  {ReaderOpts(dag, versionsOf(dag), {}, offset, follow, others, 0) :
     offset \in versionsOf(dag) \cup {"Z"}, follow \in BOOLEAN, others \in 0..MaxOthers}

\* a reader that is closed once or more
Closed(dag) ==
  {ReaderOpts(dag, versionsOf(dag), {}, "", follow, 0, closes) :
     follow \in BOOLEAN, closes \in 1..MaxCloses}

ReaderOptions(items) ==
  Filtered(Forking)
    \cup UNION {Filtered(dag) \cup Hooked(dag) \cup Offset(dag) \cup Closed(dag) :
                  dag \in ReaderDags(items)}

\* the variables of the writer and of the calls of the merge functions
notReader ==
  <<cfg, snapshot, collection, lastReturnedInc, gen, remotes, remoteQueues, oplogBuffer,
    locked, run, timers, calls, cbs, afterCbs, deferred, handed, accepted, applied,
    crashed, lastCb, skipped, stepped, stopping, unread, called, returned, mergeTree>>

\* the callback of snapshotCollection.count: set maxTries and resume the queue
CountCallback ==
  /\ reader.made /\ ~reader.counted
  /\ reader' = [reader EXCEPT !.counted = TRUE,
                              !.maxTries = Len(reader.opts.dag) + reader.opts.others,
                              !.paused = FALSE]
  /\ UNCHANGED notReader

\* _read: the consumer wants data, resume the queue
Read ==
  /\ reader.made /\ reader.paused /\ ~Contains(reader.out, End)
  /\ reader' = [reader EXCEPT !.paused = FALSE]
  /\ UNCHANGED notReader

\* the source emits 'data': push the item on the queue, which pauses the source when
\* it is saturated
SourceData ==
  /\ reader.made /\ ~reader.destroyed /\ ~reader.srcPaused
  /\ reader.pos < Len(reader.opts.dag)
  /\ reader' = [reader EXCEPT !.pos = @ + 1, !.tasks = Append(@, reader.pos + 1),
                              !.srcPaused = (Len(reader.tasks) + 1 = 1) \/ @]
  /\ UNCHANGED notReader

\* the cursor of a reader that does not follow is exhausted: the source closes
SourceEnd ==
  /\ reader.made /\ ~reader.destroyed /\ ~reader.srcPaused
  /\ reader.pos = Len(reader.opts.dag) /\ ~reader.opts.follow
  /\ reader' = destroy(reader)
  /\ UNCHANGED notReader

\* the queue hands its next task to handleData and resumes the source when it is empty
HandleStart ==
  /\ reader.made /\ ~reader.paused /\ reader.worker = 0 /\ reader.tasks # <<>>
  /\ reader' = [reader EXCEPT !.worker = Head(reader.tasks), !.tasks = Tail(@),
                              !.srcPaused = IF Tail(reader.tasks) = <<>> THEN FALSE ELSE @]
  /\ UNCHANGED notReader

\* handleData runs and calls back
HandleDone ==
  /\ reader.made /\ reader.worker # 0
  /\ \E proceed \in BOOLEAN :
       reader' = workerDone(handleData(reader, reader.opts.dag[reader.worker], proceed))
  /\ UNCHANGED notReader

\* VersionedCollectionReader.prototype.close
Close ==
  /\ reader.made /\ reader.closed < reader.opts.closes
  /\ reader' = destroy(kill([reader EXCEPT !.closed = @ + 1]))
  /\ UNCHANGED notReader

ReaderInit ==
  /\ cfg = Branching
  /\ snapshot = <<>>
  /\ collection = [id \in Ids |-> NoDoc]
  /\ lastReturnedInc = 0
  /\ gen = 0
  /\ remotes = <<>>
  /\ remoteQueues = [p \in Perspectives |-> <<>>]
  /\ oplogBuffer = <<>>
  /\ locked = FALSE
  /\ run = <<>>
  /\ timers = <<>>
  /\ calls = 0
  /\ cbs = [n \in 1..MaxCalls |-> "none"]
  /\ afterCbs = [n \in 1..MaxCalls |-> {}]
  /\ deferred = {}
  /\ handed = [p \in Perspectives |-> <<>>]
  /\ accepted = <<>>
  /\ applied = <<>>
  /\ crashed = FALSE
  /\ lastCb = "none"
  /\ skipped = FALSE
  /\ stepped = FALSE
  /\ stopping = NotStopping
  /\ unread = <<>>
  /\ called = NoArgs
  /\ returned = NoResult
  /\ reader \in {NewReader(o) : o \in ReaderOptions(MaxItems)}
  /\ mergeTree = NoTree

ReaderNext ==
  \/ CountCallback
  \/ Read
  \/ SourceData
  \/ SourceEnd
  \/ HandleStart
  \/ HandleDone
  \/ Close

\* the callbacks of the reader are called when they are due, and the consumer reads
ReaderFairness ==
  /\ WF_reader(CountCallback)
  /\ WF_reader(Read)
  /\ WF_reader(SourceData)
  /\ WF_reader(SourceEnd)
  /\ WF_reader(HandleStart)
  /\ WF_reader(HandleDone)

ReaderSpec == ReaderInit /\ [][ReaderNext]_vars /\ ReaderFairness

-----------------------------------------------------------------------------
(* What the reader emits *)

\* where the reader starts to emit: the place of the offset in the tree
offsetAt(opts) ==
  IF opts.offset = "" THEN 1
  ELSE IF opts.offset \in versionsOf(opts.dag)
       THEN CHOOSE k \in DOMAIN opts.dag : opts.dag[k].v = opts.offset
       ELSE Len(opts.dag) + 1

\* the versions at or after the offset that pass the filter and the hooks, in
\* insertion order
expected(opts) ==
  LET passing == SelectSeq(SubSeq(opts.dag, offsetAt(opts), Len(opts.dag)),
                           LAMBDA z : z.v \in opts.matching \ opts.dropped)
  IN [k \in DOMAIN passing |-> passing[k].v]

\* the versions emitted so far, and whether the end was signalled after them
emitted(r) ==
  LET data == SelectSeq(r.out, LAMBDA e : e.ev = "data")
  IN [k \in DOMAIN data |-> data[k].v]

ended(r) ==
  /\ Contains(r.out, End)
  /\ \A k \in DOMAIN r.out : r.out[k].ev = "data" => k < IndexOf(r.out, End)

\* C21: a reader that does not follow emits the items of the local perspective that
\* pass the filter and the hooks and are at or after the offset, each once and in
\* insertion order, nothing else, and then signals the end
C21_EmitsFromOffsetThenEnds ==
  (/\ reader.made /\ ~reader.opts.follow /\ reader.opts.closes = 0
   /\ reader.opts.offset \in {""} \cup versionsOf(reader.opts.dag))
    ~> (emitted(reader) = expected(reader.opts) /\ ended(reader))

\* the nearest ancestors-or-self of a version that the filter holds on and no hook
\* drops, along each of its branches
RECURSIVE near(_, _)
near(opts, p) ==
  IF p \in opts.matching \ opts.dropped THEN {p}
  ELSE UNION {near(opts, q) : q \in Range(itemOf(opts.dag, p).pa)}

nearest(opts, v) == UNION {near(opts, p) : p \in Range(itemOf(opts.dag, v).pa)}

dataOf(r) == {e \in Range(r.out) : e.ev = "data"}

\* C22: without hooks, the parents the reader emits for a version are the nearest
\* ancestors the filter holds on along each of the parent branches of the version
C22_NearestMatchingAncestors ==
  (reader.made /\ reader.opts.dropped = {}) =>
    \A e \in dataOf(reader) : Range(e.pa) = nearest(reader.opts, e.v)

\* C23: also with hooks that drop items, every version in the parents of an emitted
\* item is a version that passes the filter and is dropped by no hook
C23_ParentsAreEmittedVersions ==
  reader.made =>
    \A e \in dataOf(reader) : Range(e.pa) \subseteq reader.opts.matching \ reader.opts.dropped

\* C24: the parents of an emitted item never hold the same version twice
C24_NoDuplicateParents ==
  reader.made =>
    \A e \in dataOf(reader) : \A j, k \in DOMAIN e.pa : e.pa[j] = e.pa[k] => j = k

\* the reader is at rest: nothing is queued or handled and the source gives no more
atRest(r) ==
  /\ r.counted /\ idle(r)
  /\ r.destroyed \/ (r.pos = Len(r.opts.dag) /\ r.opts.follow)

\* C25: with an offset nothing is emitted before the offset is seen, and a reader whose
\* offset is not among the items present fails with 'offset not found', whatever
\* items of other perspectives the collection holds
C25_OffsetNotFound ==
  (reader.made /\ reader.opts.offset # "") =>
    /\ ~reader.offsetReached => dataOf(reader) = {}
    /\ (atRest(reader) /\ reader.opts.offset \notin versionsOf(reader.opts.dag)) =>
         OffsetNotFound \in Range(reader.out)

\* the end is signalled once, and no data is emitted after it
endsOnce(r) ==
  /\ \A j, k \in DOMAIN r.out : (r.out[j] = End /\ r.out[k] = End) => j = k
  /\ \A j, k \in DOMAIN r.out : (r.out[j] = End /\ r.out[k].ev = "data") => k < j

\* C26: after close the source is stopped, the work in flight is finished and then the
\* end is signalled, once and with no data after it, also when close is called twice
C26_CloseEndsOnce ==
  [](reader.made => endsOnce(reader))
    /\ ((reader.made /\ reader.closed > 0)
          ~> (reader.destroyed /\ idle(reader) /\ Contains(reader.out, End)))

-----------------------------------------------------------------------------
(* MergeTree: the trees *)

\* a version given by a peer; the versions of merges are made by versionContent
Given(name) == <<name>>

NoPe == ""
remotePerspective == "r1"

\* opts.local || '_local', opts.stage || '_stage' and opts.perspectives
localName == "_local"
stageName == "_stage"
declared == {remotePerspective}

TreeItem(id, v, pa, pe, b) ==
  [id |-> id, v |-> v, pa |-> pa, pe |-> pe, d |-> FALSE, c |-> FALSE, b |-> b]

\* Tree.getByVersion
getByVersion(tree, v) == SelectSeq(tree, LAMBDA z : z.v = v)

\* the items of an id without a child in the tree, in insertion order
treeHeads(tree, id) ==
  SelectSeq(tree, LAMBDA z :
    z.id = id /\ ~\E k \in DOMAIN tree : tree[k].id = id /\ Contains(tree[k].pa, z.v))

\* Tree.getHeads({ id, skipDeletes, skipConflicts })
getHeads(tree, id, skipDeletes, skipConflicts) ==
  SelectSeq(treeHeads(tree, id), LAMBDA z : ~(skipDeletes /\ z.d) /\ ~(skipConflicts /\ z.c))

\* the head index after a write: of several open heads of an id all but the first are
\* stored with the conflict bit
flagHeads(tree, id) ==
  LET open == getHeads(tree, id, TRUE, TRUE)
      later == {open[k].v : k \in 2..Len(open)}
  IN [k \in DOMAIN tree |->
        IF tree[k].id = id /\ tree[k].v \in later THEN [tree[k] EXCEPT !.c = TRUE]
        ELSE tree[k]]

\* header and body of two items are equivalent
equivalent(a, b) == [a EXCEPT !.c = FALSE] = [b EXCEPT !.c = FALSE]

\* Tree.write: an item that is there already is left as it is, an item with a version
\* that is taken or with a parent that is missing is invalid
write(tree, item, skipValidation) ==
  IF \E k \in DOMAIN tree : tree[k].id = item.id /\ tree[k].v = item.v
  THEN [ok |-> \E k \in DOMAIN tree : equivalent(tree[k], item), tree |-> tree]
  ELSE IF ~skipValidation
          /\ \E p \in Range(item.pa) :
               ~\E k \in DOMAIN tree : tree[k].id = item.id /\ tree[k].v = p
       THEN [ok |-> FALSE, tree |-> tree]
       ELSE [ok |-> TRUE, tree |-> flagHeads(Append(tree, item), item.id)]

\* Tree.del
del(tree, item) == SelectSeq(tree, LAMBDA z : ~(z.id = item.id /\ z.v = item.v))

\* Tree.lastByPerspective: the version of the last item that came from a perspective
lastByPerspective(tree, pe) ==
  LET from == SelectSeq(tree, LAMBDA z : z.pe = pe)
  IN IF from = <<>> THEN <<>> ELSE <<from[Len(from)].v>>

\* the place of a version in a tree, 0 if it is not there
placeOf(tree, v) ==
  IF \E k \in DOMAIN tree : tree[k].v = v THEN CHOOSE k \in DOMAIN tree : tree[k].v = v
  ELSE 0

\* Tree.iterateInsertionOrder({ first, excludeFirst }): the items after a version, all
\* items without one
iterateAfter(tree, first) ==
  IF first = <<>> THEN tree ELSE SubSeq(tree, placeOf(tree, first[1]) + 1, Len(tree))

\* Tree.iterateInsertionOrder({ id, last }): the items of an id up to a version
iterateUpTo(tree, id, last) ==
  SelectSeq(SubSeq(tree, 1, IF placeOf(tree, last) = 0 THEN Len(tree) ELSE placeOf(tree, last)),
            LAMBDA z : z.id = id)

\* the versions of an item and its ancestors in a DAG
RECURSIVE ancestry(_, _)
ancestry(dag, vs) ==
  LET more == vs \cup UNION {Range(dag[k].pa) : k \in {j \in DOMAIN dag : dag[j].v \in vs}}
  IN IF more = vs THEN vs ELSE ancestry(dag, more)

\* MergeTree._copyTo(stree, dtree, { first, excludeFirst, last, excludeLast }): write
\* the items up to last, exclusive, into dtree
RECURSIVE copyTo(_, _, _)
copyTo(items, dtree, last) ==
  IF items = <<>> \/ Head(items).v = last THEN [ok |-> TRUE, tree |-> dtree]
  ELSE LET wr == write(dtree, Head(items), FALSE)
       IN IF ~wr.ok THEN wr ELSE copyTo(Tail(items), wr.tree, last)

-----------------------------------------------------------------------------
(* MergeTree: mergeWithLocal and the local write stream *)

\* merge(sX, sY, { rootX: shead, rootY: dhead }) in _mergeTrees: the head of the source
\* tree itself, a fast-forward, a conflict or a merge with a version of its content
mergeHeads(stree, dtree, shead, dhead) ==
  LET sdag == SelectSeq(stree, LAMBDA z : z.id = shead.id)
      ddag == SelectSeq(dtree, LAMBDA z : z.id = shead.id)
      common == ancestry(sdag, {shead.v}) \cap ancestry(ddag, {dhead.v})
      lcas == {l \in common :
                 ~\E o \in common \ {l} : l \in ancestry(sdag, {o}) \cup ancestry(ddag, {o})}
  IN IF shead.v = dhead.v THEN [kind |-> "head", item |-> shead]
     ELSE IF dhead.v \in ancestry(sdag, {shead.v}) THEN [kind |-> "merge", item |-> shead]
     ELSE IF shead.v \in ancestry(ddag, {dhead.v})
          THEN [kind |-> "merge", item |-> [dhead EXCEPT !.pe = shead.pe]]
     ELSE IF Cardinality(lcas) # 1 THEN [kind |-> "conflict", item |-> shead]
     ELSE LET lca == CHOOSE l \in lcas : TRUE
              m3 == threeWayMerge(shead.b, dhead.b, getByVersion(sdag, lca)[1].b,
                                  getByVersion(ddag, lca)[1].b)
              smerge == TreeItem(shead.id, <<>>, <<shead.v, dhead.v>>, shead.pe, m3.b)
          IN IF m3.conflict THEN [kind |-> "conflict", item |-> shead]
             ELSE [kind |-> "merge", item |-> [smerge EXCEPT !.v = versionContent(smerge)]]

\* mergeNewHeadWithStage(newHead): what is written to stage and what mergeHandler is
\* called with; outcome is what the merge with the head in stage gives when that head
\* is no ancestor of the new head

\* the new head written to stage without a call of mergeHandler
stagedUncalled(t, newHead, dhead, outcome) ==
  [stage |-> write(t.stage, newHead, TRUE).tree, call |-> <<>>, err |-> FALSE,
   conflict |-> FALSE]

mergeNewHeadWithStage(t, newHead, dhead, outcome) ==
  LET heads == getHeads(t.stage, newHead.id, TRUE, TRUE)
      dag == heads \o SelectSeq(t.pe, LAMBDA z : z.id = newHead.id) \o <<newHead>>
      merged == TreeItem(newHead.id, <<>>, <<newHead.v, heads[1].v>>, newHead.pe, newHead.b)
      flagged == [newHead EXCEPT !.c = TRUE]
  IN IF Len(heads) > 1
     THEN [stage |-> t.stage, call |-> <<>>, err |-> TRUE, conflict |-> FALSE]
     ELSE IF heads = <<>>
          THEN [stage |-> write(t.stage, newHead, TRUE).tree,
                call |-> <<[v |-> newHead.v, prev |-> dhead]>>, err |-> FALSE,
                conflict |-> FALSE]
     ELSE IF heads[1].v \in ancestry(dag, {newHead.v})
          THEN [stage |-> write(t.stage, newHead, TRUE).tree,
                call |-> <<[v |-> newHead.v, prev |-> <<heads[1].v>>]>>, err |-> FALSE,
                conflict |-> FALSE]
     ELSE IF outcome = "conflict"
          THEN [stage |-> write(t.stage, flagged, TRUE).tree, call |-> <<>>, err |-> FALSE,
                conflict |-> TRUE]
     ELSE [stage |-> write(write(t.stage, newHead, TRUE).tree,
                           [merged EXCEPT !.v = versionContent(merged)], TRUE).tree,
           call |-> <<[v |-> versionContent(merged), prev |-> <<heads[1].v>>]>>,
           err |-> FALSE, conflict |-> FALSE]

\* the iterator mergeWithLocal gives to _mergeTrees, for one head of the source tree and
\* one head of the local tree (dhead is empty when the local tree has none)
iterator(t, shead, dhead, outcome) ==
  LET m == IF dhead = <<>> THEN [kind |-> "head", item |-> shead]
           ELSE mergeHeads(t.pe, t.local, shead, dhead[1])
  IN IF m.kind = "conflict"
     THEN [stage |-> write(t.stage, [shead EXCEPT !.c = TRUE], TRUE).tree, call |-> <<>>,
           err |-> FALSE, conflict |-> TRUE]
     ELSE mergeNewHeadWithStage(t, m.item, IF dhead = <<>> THEN <<>> ELSE <<dhead[1].v>>,
                                outcome)

\* the errors a write to the local write stream calls back with: none, the error of
\* Tree.write for an item it does not take, and the error for a local tree with more than
\* one head
NoError == ""
InvalidItem == "InvalidItem"
ManyHeads == "more than one non-deleted and non-conflicting head in local tree"

NotMerging == [active |-> FALSE, todo |-> <<>>, dheads |-> <<>>, waiting |-> FALSE]
NotConfirming == [active |-> FALSE, v |-> <<>>, todo |-> <<>>, phase |-> "copy"]

\* new MergeTree(db, { perspectives: ['r1'], mergeHandler: ... }) on a database that
\* holds the given trees, and the items the peer will write; handler tells that a
\* mergeHandler is given, thrown that a call has thrown, met holds the source heads a
\* merge conflict was met for and refused the errors of the remote write stream
NewTree(pe, local, feed) ==
  [made |-> TRUE, pe |-> pe, local |-> local, stage |-> <<>>, feed |-> feed,
   merging |-> NotMerging, runs |-> 0, handled |-> <<>>, confirming |-> NotConfirming,
   before |-> [local |-> local, stage |-> <<>>, calls |-> 0], written |-> <<>>,
   handler |-> TRUE, thrown |-> FALSE, met |-> <<>>, refused |-> <<>>]

\* the first items of a sequence
FirstOf(s, n) == SubSeq(s, 1, IF Len(s) < n THEN Len(s) ELSE n)

\* a peer writes X, then Y on X, then Z on Y, of one id
Chain ==
  NewTree(<<>>, <<>>,
          FirstOf(<<TreeItem("d1", Given("X"), <<>>, remotePerspective, Bx(1)),
                   TreeItem("d1", Given("Y"), <<Given("X")>>, remotePerspective, Bx(2)),
                   TreeItem("d1", Given("Z"), <<Given("Y")>>, remotePerspective, Bx(3))>>,
                  MaxFeed))

\* a peer writes X and Y of one id and, between them, W of another id
TwoIds ==
  NewTree(<<>>, <<>>,
          FirstOf(<<TreeItem("d1", Given("X"), <<>>, remotePerspective, Bx(1)),
                   TreeItem("d2", Given("W"), <<>>, remotePerspective, Bx(1)),
                   TreeItem("d1", Given("Y"), <<Given("X")>>, remotePerspective, Bx(2))>>,
                  MaxFeed))

\* the local tree holds A of the peer and L, written locally on A; the peer writes X on
\* A and Y on X
Diverged ==
  NewTree(<<TreeItem("d1", Given("A"), <<>>, remotePerspective, Bx(1))>>,
          <<TreeItem("d1", Given("A"), <<>>, remotePerspective, Bx(1)),
            TreeItem("d1", Given("L"), <<Given("A")>>, NoPe, Bxy(1, 1))>>,
          FirstOf(<<TreeItem("d1", Given("X"), <<Given("A")>>, remotePerspective, Bx(2)),
                   TreeItem("d1", Given("Y"), <<Given("X")>>, remotePerspective, Bx(3))>>,
                  MaxFeed))

\* the local tree holds A of the peer and L, written locally on A; the peer writes X on
\* A, which changes what L changes, and W of another id
Conflicting ==
  NewTree(<<TreeItem("d1", Given("A"), <<>>, remotePerspective, Bx(1))>>,
          <<TreeItem("d1", Given("A"), <<>>, remotePerspective, Bx(1)),
            TreeItem("d1", Given("L"), <<Given("A")>>, NoPe, Bx(3))>>,
          FirstOf(<<TreeItem("d1", Given("X"), <<Given("A")>>, remotePerspective, Bx(2)),
                   TreeItem("d2", Given("W"), <<>>, remotePerspective, Bx(1))>>,
                  MaxFeed))

\* a peer writes X, which is in conflict in the tree of the peer, and Y of another id
Flagged ==
  NewTree(<<>>, <<>>,
          FirstOf(<<[TreeItem("d1", Given("X"), <<>>, remotePerspective, Bx(1))
                       EXCEPT !.c = TRUE],
                   TreeItem("d2", Given("Y"), <<>>, remotePerspective, Bx(2))>>,
                  MaxFeed))

\* a MergeTree without a mergeHandler; a peer writes X and Y on X
Auto ==
  [NewTree(<<>>, <<>>,
           FirstOf(<<TreeItem("d1", Given("X"), <<>>, remotePerspective, Bx(1)),
                    TreeItem("d1", Given("Y"), <<Given("X")>>, remotePerspective, Bx(2))>>,
                   MaxFeed))
     EXCEPT !.handler = FALSE]

\* a peer writes items with the name of the local tree, with the name of stage and
\* with a name that is not among the perspectives, and then X as r1
Strangers ==
  NewTree(<<>>, <<>>,
          <<TreeItem("d1", Given("S"), <<>>, localName, Bx(1)),
            TreeItem("d1", Given("T"), <<>>, stageName, Bx(1)),
            TreeItem("d1", Given("U"), <<>>, "r9", Bx(1)),
            TreeItem("d1", Given("X"), <<>>, remotePerspective, Bx(1))>>)

Trees == {Chain, TwoIds, Diverged, Conflicting, Flagged, Auto}

\* the variables of the writer, of the calls of the merge functions and of the reader
notTree ==
  <<cfg, snapshot, collection, lastReturnedInc, gen, remotes, remoteQueues, oplogBuffer,
    locked, run, timers, calls, cbs, afterCbs, deferred, handed, accepted, applied,
    crashed, lastCb, skipped, stepped, stopping, unread, called, returned, reader>>

\* the error the remote write stream calls back with for an item of a perspective
\* the remote write stream takes an item of any perspective
anyPerspective(pe) == NoError

remoteWriteError(pe) ==
  IF pe = localName THEN "perspective should differ from local name"
  ELSE IF pe = stageName THEN "perspective should differ from stage name"
  ELSE IF pe \notin declared THEN "perspective not found"
  ELSE NoError

\* the remote write stream takes the next item of the peer: it calls back with an
\* error, or writes the item to the tree of its perspective (the tree of r1)
RemoteWrite ==
  /\ mergeTree.made /\ ~mergeTree.thrown /\ mergeTree.feed # <<>>
  /\ LET item == Head(mergeTree.feed)
         error == remoteWriteError(item.pe)
     IN IF error # NoError
        THEN mergeTree' = [mergeTree EXCEPT
               !.refused = Append(@, [v |-> item.v, pe |-> item.pe, err |-> error]),
               !.feed = Tail(@)]
        ELSE mergeTree' = [mergeTree EXCEPT !.pe = write(@, item, FALSE).tree,
                                            !.feed = Tail(@)]
  /\ UNCHANGED notTree

\* mergeWithLocal(stree, cb): _iterateMissing starts after the last version of the
\* source tree that is in the local tree
MergeWithLocal ==
  /\ mergeTree.made /\ ~mergeTree.thrown /\ ~mergeTree.merging.active /\ mergeTree.runs < MaxRuns
  /\ mergeTree' = [mergeTree EXCEPT
       !.runs = @ + 1,
       !.merging = [NotMerging EXCEPT
          !.active = TRUE,
          !.todo = iterateAfter(mergeTree.pe, lastByPerspective(mergeTree.local, remotePerspective))]]
  /\ UNCHANGED notTree

\* _mergeTrees takes the next item of the source tree: an item that is no head is
\* passed, for a head the heads of the local tree are collected and the iterator is
\* called for the first of them
\* (the iterator is called for the following heads when next is called)
MergeTrees ==
  /\ mergeTree.made /\ ~mergeTree.thrown /\ mergeTree.merging.active /\ ~mergeTree.merging.waiting
  /\ mergeTree.merging.todo # <<>>
  /\ \E outcome \in {"conflict", "merged"} :
       LET sitem == Head(mergeTree.merging.todo)
           isHead == \E k \in DOMAIN treeHeads(mergeTree.pe, sitem.id) :
                        treeHeads(mergeTree.pe, sitem.id)[k].v = sitem.v
           dheads == IF mergeTree.merging.dheads # <<>> THEN mergeTree.merging.dheads
                     ELSE treeHeads(mergeTree.local, sitem.id)
           dhead == IF dheads = <<>> THEN <<>> ELSE <<Head(dheads)>>
           rest == IF dheads = <<>> THEN <<>> ELSE Tail(dheads)
           done == iterator(mergeTree, sitem, dhead, outcome)
       IN IF mergeTree.merging.dheads = <<>> /\ ~isHead
          THEN mergeTree' = [mergeTree EXCEPT !.merging.todo = Tail(@)]
          ELSE IF done.err
               THEN mergeTree' = [mergeTree EXCEPT !.merging = NotMerging]
               ELSE mergeTree' = [mergeTree EXCEPT
                      !.stage = done.stage,
                      !.handled = @ \o [k \in DOMAIN done.call |->
                                          [v |-> done.call[k].v, prev |-> done.call[k].prev,
                                           run |-> mergeTree.runs]],
                      !.met = IF done.conflict THEN Append(@, sitem.v) ELSE @,
                      !.thrown = done.call # <<>> /\ ~mergeTree.handler,
                      !.merging.waiting = done.call # <<>>,
                      !.merging.dheads = rest,
                      !.merging.todo = IF rest = <<>> THEN Tail(@) ELSE @]
  /\ UNCHANGED notTree

\* mergeHandler calls next
HandlerNext ==
  /\ mergeTree.made /\ ~mergeTree.thrown /\ mergeTree.merging.active /\ mergeTree.merging.waiting
  /\ mergeTree' = [mergeTree EXCEPT !.merging.waiting = FALSE]
  /\ UNCHANGED notTree

\* mergeWithLocal has passed every item and calls back
MergeDone ==
  /\ mergeTree.made /\ ~mergeTree.thrown /\ mergeTree.merging.active /\ ~mergeTree.merging.waiting
  /\ mergeTree.merging.todo = <<>>
  /\ mergeTree' = [mergeTree EXCEPT !.merging = NotMerging]
  /\ UNCHANGED notTree

\* the item a local write gives to confirm a version mergeHandler was called with
confirmationOf(t, v) ==
  LET staged == getByVersion(t.stage, v) \o getByVersion(t.local, v)
  IN [id |-> staged[1].id, v |-> v, b |-> staged[1].b]

\* a write to the local write stream of an item with the version of a merge that was
\* handled: when the version is in stage, everything up to it is moved to the local
\* tree, else the item is written as a new version on the head of the local tree
LocalWrite ==
  /\ mergeTree.made /\ ~mergeTree.thrown /\ ~mergeTree.confirming.active /\ Len(mergeTree.written) < MaxWrites
  /\ \E k \in DOMAIN mergeTree.handled :
       LET item == confirmationOf(mergeTree, mergeTree.handled[k].v)
           exists == getByVersion(mergeTree.stage, item.v)
           heads == getHeads(mergeTree.local, item.id, TRUE, TRUE)
           newItem == TreeItem(item.id, item.v, [j \in DOMAIN heads |-> heads[j].v], NoPe,
                               item.b)
           wr == write(mergeTree.local, newItem, FALSE)
       IN IF exists # <<>> /\ exists[1].b = item.b
          THEN mergeTree' = [mergeTree EXCEPT
                 !.before = [local |-> mergeTree.local, stage |-> mergeTree.stage,
                            calls |-> Len(mergeTree.handled)],
                 !.confirming = [active |-> TRUE, v |-> item.v, phase |-> "copy",
                                 todo |-> iterateUpTo(mergeTree.stage, item.id, item.v)]]
          ELSE mergeTree' = [mergeTree EXCEPT
                 !.before = [local |-> mergeTree.local, stage |-> mergeTree.stage,
                            calls |-> Len(mergeTree.handled)],
                 !.local = IF Len(heads) > 1 THEN @ ELSE wr.tree,
                 !.written = Append(@, [v |-> item.v, ok |-> Len(heads) <= 1 /\ wr.ok,
                                        err |-> IF Len(heads) > 1 THEN ManyHeads
                                                ELSE IF wr.ok THEN NoError ELSE InvalidItem,
                                        confirmed |-> FALSE,
                                        calls |-> Len(mergeTree.handled)])]
  /\ UNCHANGED notTree

\* for a staged item of a perspective: copy the items of the perspective that the local
\* tree does not hold yet, up to the confirmed version
PromoteCopy ==
  /\ mergeTree.made /\ ~mergeTree.thrown /\ mergeTree.confirming.active /\ mergeTree.confirming.phase = "copy"
  /\ LET stageItem == Head(mergeTree.confirming.todo)
         copied == copyTo(iterateAfter(mergeTree.pe, lastByPerspective(mergeTree.local, stageItem.pe)),
                          mergeTree.local, mergeTree.confirming.v)
     IN IF stageItem.pe = NoPe
        THEN mergeTree' = [mergeTree EXCEPT !.confirming.phase = "write"]
        ELSE IF copied.ok
             THEN mergeTree' = [mergeTree EXCEPT !.local = copied.tree, !.confirming.phase = "write"]
             ELSE mergeTree' = [mergeTree EXCEPT
                    !.local = copied.tree, !.confirming = NotConfirming,
                    !.written = Append(@, [v |-> mergeTree.confirming.v, ok |-> FALSE, err |-> InvalidItem,
                                           confirmed |-> TRUE,
                                      calls |-> mergeTree.before.calls])]
  /\ UNCHANGED notTree

\* move the staged item to the local tree: local.write(stageItem)
PromoteWrite ==
  /\ mergeTree.made /\ ~mergeTree.thrown /\ mergeTree.confirming.active /\ mergeTree.confirming.phase = "write"
  /\ LET wr == write(mergeTree.local, Head(mergeTree.confirming.todo), FALSE)
     IN IF wr.ok
        THEN mergeTree' = [mergeTree EXCEPT !.local = wr.tree, !.confirming.phase = "del"]
        ELSE mergeTree' = [mergeTree EXCEPT
               !.confirming = NotConfirming,
               !.written = Append(@, [v |-> mergeTree.confirming.v, ok |-> FALSE, err |-> InvalidItem,
                                      confirmed |-> TRUE,
                                      calls |-> mergeTree.before.calls])]
  /\ UNCHANGED notTree

\* stage.del(stageItem), then the next staged item or the callback of the write
PromoteDel ==
  /\ mergeTree.made /\ ~mergeTree.thrown /\ mergeTree.confirming.active /\ mergeTree.confirming.phase = "del"
  /\ mergeTree' = [mergeTree EXCEPT
       !.stage = del(@, Head(mergeTree.confirming.todo)),
       !.confirming = IF Tail(mergeTree.confirming.todo) = <<>> THEN NotConfirming
                      ELSE [@ EXCEPT !.todo = Tail(@), !.phase = "copy"],
       !.written = IF Tail(mergeTree.confirming.todo) = <<>>
                   THEN Append(@, [v |-> mergeTree.confirming.v, ok |-> TRUE, err |-> NoError,
                                      confirmed |-> TRUE,
                                      calls |-> mergeTree.before.calls])
                   ELSE @]
  /\ UNCHANGED notTree

\* a versioned collection that nothing was saved to
Untouched ==
  /\ snapshot = <<>>
  /\ collection = [id \in Ids |-> NoDoc]
  /\ lastReturnedInc = 0
  /\ gen = 0
  /\ remotes = <<>>
  /\ remoteQueues = [p \in Perspectives |-> <<>>]
  /\ oplogBuffer = <<>>
  /\ locked = FALSE
  /\ run = <<>>
  /\ timers = <<>>
  /\ calls = 0
  /\ cbs = [n \in 1..MaxCalls |-> "none"]
  /\ afterCbs = [n \in 1..MaxCalls |-> {}]
  /\ deferred = {}
  /\ handed = [p \in Perspectives |-> <<>>]
  /\ accepted = <<>>
  /\ applied = <<>>
  /\ crashed = FALSE
  /\ lastCb = "none"
  /\ skipped = FALSE
  /\ stepped = FALSE
  /\ stopping = NotStopping
  /\ unread = <<>>
  /\ called = NoArgs
  /\ returned = NoResult
  /\ reader = NoReader

TreeInit ==
  /\ cfg = Branching
  /\ Untouched
  /\ mergeTree \in Trees

TreeNext ==
  \/ RemoteWrite
  \/ MergeWithLocal
  \/ MergeTrees
  \/ HandlerNext
  \/ MergeDone
  \/ LocalWrite
  \/ PromoteCopy
  \/ PromoteWrite
  \/ PromoteDel

\* the callbacks of the trees are called, and mergeHandler calls next
TreeFairness ==
  /\ WF_mergeTree(MergeTrees)
  /\ WF_mergeTree(HandlerNext)
  /\ WF_mergeTree(MergeDone)
  /\ WF_mergeTree(PromoteCopy)
  /\ WF_mergeTree(PromoteWrite)
  /\ WF_mergeTree(PromoteDel)

TreeSpec == TreeInit /\ [][TreeNext]_vars /\ TreeFairness

-----------------------------------------------------------------------------
(* What a confirmation moves *)

versionsIn(tr) == {tr[k].v : k \in DOMAIN tr}

Last(s) == s[Len(s)]

\* a local write that confirms a staged version calls back without error
confirms(t, u) ==
  /\ t.made /\ t.confirming.active /\ ~u.confirming.active
  /\ Last(u.written).ok

\* the staged items of the id of the confirmed version up to it, and the ones after it
promoted(t) ==
  iterateUpTo(t.before.stage, Head(getByVersion(t.before.stage, t.confirming.v)).id,
              t.confirming.v)

stagedLater(t) ==
  SelectSeq(SubSeq(t.before.stage, placeOf(t.before.stage, t.confirming.v) + 1,
                   Len(t.before.stage)),
            LAMBDA z : z.id = Head(promoted(t)).id)

\* the items of the source tree up to the last one that a promoted item is or merges
sourcePrefix(t, u) ==
  LET ends == {placeOf(u.pe, v) :
                 v \in UNION {{z.v} \cup Range(z.pa) : z \in Range(promoted(t))}}
      end == CHOOSE e \in ends \cup {0} : \A o \in ends : o <= e
  IN {u.pe[k].v : k \in 1..end}

\* C27: a confirmation of V writes to the local tree exactly the items of the id of V
\* staged up to V and the items of the source tree up to them, and removes those staged
\* items from stage; what was staged after V stays in stage and out of the local tree
C27_PromotesUpToConfirmed ==
  [][confirms(mergeTree, mergeTree') =>
       /\ \A z \in Range(promoted(mergeTree)) :
            z.v \in versionsIn(mergeTree'.local) /\ z.v \notin versionsIn(mergeTree'.stage)
       /\ \A z \in Range(stagedLater(mergeTree)) :
            /\ z.v \in versionsIn(mergeTree'.stage)
            /\ z.v \in versionsIn(mergeTree'.local) => z.v \in versionsIn(mergeTree.before.local)
       /\ versionsIn(mergeTree'.local) \ versionsIn(mergeTree.before.local)
            \subseteq versionsIn(promoted(mergeTree))
                        \cup sourcePrefix(mergeTree, mergeTree')]_vars

-----------------------------------------------------------------------------
(* The calls of mergeHandler *)

\* the versions a step writes to stage without the conflict flag
newlyStaged(t, u) ==
  {u.stage[k].v : k \in {j \in DOMAIN u.stage : ~u.stage[j].c}} \ versionsIn(t.stage)

\* the calls of mergeHandler that a run of mergeWithLocal made so far
callsOf(t, r) == SelectSeq(t.handled, LAMBDA h : h.run = r)

-----------------------------------------------------------------------------
(* Confirmations out of order *)

\* mergeHandler was called with v and later with another version of the same id, and
\* after these calls that later version has been confirmed
lateFor(t, v) ==
  \E i, j \in DOMAIN t.handled :
    /\ i < j /\ t.handled[i].v = v /\ t.handled[j].v # v
    /\ confirmationOf(t, t.handled[j].v).id = confirmationOf(t, v).id
    /\ \E k \in DOMAIN t.written :
         /\ t.written[k].v = t.handled[j].v /\ t.written[k].ok /\ t.written[k].confirmed
         /\ t.written[k].calls >= j

\* the step is a write of version v to the local write stream
writesLocal(t, u, v) ==
  /\ t.made /\ ~t.confirming.active
  /\ \/ u.confirming.active /\ u.confirming.v = v
     \/ Len(u.written) = Len(t.written) + 1 /\ Last(u.written).v = v

\* C29: when mergeHandler was called with m1 and then with m2 of the same id and m2 was
\* confirmed first, a local write that confirms m1 is rejected with
\* OutOfOrderConfirmation and leaves the local tree and the stage tree as they are
C29_OutOfOrderRejected ==
  [][\A k \in DOMAIN mergeTree.handled :
       (lateFor(mergeTree, mergeTree.handled[k].v)
        /\ writesLocal(mergeTree, mergeTree', mergeTree.handled[k].v))
       => /\ ~mergeTree'.confirming.active
          /\ Last(mergeTree'.written).err = "OutOfOrderConfirmation"
          /\ mergeTree'.local = mergeTree.local
          /\ mergeTree'.stage = mergeTree.stage]_vars

\* m1 and m2 were handed to mergeHandler, m2 was confirmed and the write that confirms m1
\* after it was called back with an error, the trees being as they were
lateRejected ==
  /\ mergeTree.made /\ ~mergeTree.confirming.active /\ Len(mergeTree.written) >= 2
  /\ lateFor(mergeTree, Last(mergeTree.written).v)
  /\ ~Last(mergeTree.written).ok /\ ~Last(mergeTree.written).confirmed
  /\ mergeTree.local = mergeTree.before.local /\ mergeTree.stage = mergeTree.before.stage

-----------------------------------------------------------------------------
(* The steps of a promotion *)

\* a promoted item is in the local tree, and was not before the confirmation
movedToLocal(t, z) == z.v \in versionsIn(t.local) \ versionsIn(t.before.local)

\* C30: while a confirmation is under way, and after it failed, either none of the
\* staged items up to the confirmed version has been moved (each is in stage and not yet
\* in the local tree) or all have been (each is in the local tree and no longer in stage)
C30_PromotionAtomic ==
  (mergeTree.made
   /\ (mergeTree.confirming.active
       \/ (mergeTree.written # <<>> /\ Last(mergeTree.written).confirmed
           /\ ~Last(mergeTree.written).ok)))
  => LET moving == IF mergeTree.confirming.active THEN mergeTree
                   ELSE [mergeTree EXCEPT !.confirming.v = Last(mergeTree.written).v]
     IN \/ \A z \in Range(promoted(moving)) :
             z.v \in versionsIn(mergeTree.stage) /\ ~movedToLocal(mergeTree, z)
        \/ \A z \in Range(promoted(moving)) :
             z.v \in versionsIn(mergeTree.local) /\ z.v \notin versionsIn(mergeTree.stage)

-----------------------------------------------------------------------------
(* A MergeTree without a mergeHandler, and merge conflicts *)

\* the versions mergeHandler was called with
handledVersions(t) == {t.handled[k].v : k \in DOMAIN t.handled}

\* mergeWithLocal has called back and what it handed to mergeHandler is in the local
\* tree and not in stage
autoConfirmed(t) ==
  /\ ~t.merging.active
  /\ handledVersions(t) \subseteq versionsIn(t.local)
  /\ handledVersions(t) \cap versionsIn(t.stage) = {}

\* C31: without a mergeHandler every new head or merge that mergeWithLocal stages is
\* confirmed through the local write stream: mergeWithLocal calls back, and the staged
\* items are then in the local tree and no longer in stage
C31_AutoConfirm ==
  (mergeTree.made /\ ~mergeTree.handler /\ mergeTree.handled # <<>>)
    ~> (mergeTree.made /\ autoConfirmed(mergeTree))

\* a step in which mergeWithLocal meets a merge conflict for a source head
meetsConflict(t, u) == Len(u.met) > Len(t.met)

\* a step in which mergeHandler is called
callsHandler(t, u) == Len(u.handled) > Len(t.handled)

\* the items of a tree with a version
flagsOf(tree, v) == {tree[k].c : k \in {j \in DOMAIN tree : tree[j].v = v}}

\* C32: when mergeWithLocal meets a merge conflict for a source head, the head is
\* written to stage with the conflict flag, mergeHandler is not called and
\* mergeWithLocal goes on; mergeHandler is never called with an item whose conflict
\* flag is set
C32_ConflictsNotHandled ==
  [][mergeTree.made =>
       /\ meetsConflict(mergeTree, mergeTree') =>
            /\ flagsOf(mergeTree'.stage, Last(mergeTree'.met)) = {TRUE}
            /\ mergeTree'.handled = mergeTree.handled
            /\ mergeTree'.merging.active /\ ~mergeTree'.merging.waiting
       /\ callsHandler(mergeTree, mergeTree') =>
            flagsOf(mergeTree'.stage, Last(mergeTree'.handled).v) = {FALSE}]_vars

-----------------------------------------------------------------------------
(* Items of a perspective that is not a remote *)

\* a peer that gives items with the local perspective, and the peer r1
Rejecting ==
  Options(FALSE, 8, 8, FALSE,
          {RemoteInput(localPerspective, "A"), RemoteInput("r1", "A"),
           RemoteInput("r1", "B")})

RejectInit ==
  /\ cfg = Rejecting
  /\ Untouched
  /\ mergeTree = Strangers

RejectNext ==
  \/ SaveRemoteItem
  \/ RemoteWrite

RejectSpec == RejectInit /\ [][RejectNext]_vars

\* the trees of a MergeTree
treesOf(t) == <<t.pe, t.local, t.stage>>

\* a step in which the remote write stream takes an item
remoteWrites(t, u) == t.made /\ t.feed # <<>> /\ u.feed = Tail(t.feed)

\* the local name, the stage name and the names that are no perspective
reserved(pe) == pe = localName \/ pe = stageName \/ pe \notin declared

\* saveRemoteItem calls back with an error for every item of the local perspective
\* and leaves the remotes and their queues as they are
rejectsLocal ==
  \A inp \in cfg.feed :
    inp.kind = "remote" /\ inp.pe = localPerspective /\ calls < MaxCalls =>
      LET st == saveRemoteItem(State, inp, calls + 1)
      IN /\ st.cbs[calls + 1] = "err"
         /\ st.remoteQueues = remoteQueues
         /\ st.remotes = remotes

\* C33: the remote write stream calls back with an error for every item whose
\* perspective is the local name, the stage name or no declared perspective, and
\* writes it to no tree; saveRemoteItem calls back with an error for an item of the
\* local perspective and puts it in no queue
C33_ReservedRejected ==
  /\ []rejectsLocal
  /\ [][/\ remoteWrites(mergeTree, mergeTree') /\ reserved(Head(mergeTree.feed).pe) =>
            /\ Len(mergeTree'.refused) = Len(mergeTree.refused) + 1
            /\ Last(mergeTree'.refused).v = Head(mergeTree.feed).v
            /\ Last(mergeTree'.refused).err # NoError
            /\ treesOf(mergeTree') = treesOf(mergeTree)
        /\ calls' = calls + 1 =>
            \/ /\ cbs'[calls'] = "err"
               /\ remoteQueues' = remoteQueues /\ remotes' = remotes
            \/ \E pe \in Perspectives \ {localPerspective} :
                 /\ cbs'[calls'] = "ok"
                 /\ Len(remoteQueues'[pe]) = Len(remoteQueues[pe]) + 1
                 /\ Last(remoteQueues'[pe]).item.pe = pe]_vars

C33_Witness ==
  /\ mergeTree.made /\ Len(mergeTree.refused) = 3 /\ mergeTree.pe # <<>>
  /\ \E n \in 1..MaxCalls : cbs[n] = "err"
  /\ \E n \in 1..MaxCalls : cbs[n] = "ok"

-----------------------------------------------------------------------------
(* The versions made from oplog entries *)

\* the oplog reader gives an insert, an update and a deletion of d1, an entry with
\* another operation, and the insert that echoes the stored version Z of d2
Operating ==
  [Options(FALSE, 8, 8, FALSE,
           {OplogInput("i", "d1", NoV, Bx(5), FALSE), OplogInput("u", "d1", NoV, Bx(4), FALSE),
            OplogInput("d", "d1", NoV, Bx(0), FALSE), OplogInput("n", "d1", NoV, Bx(0), FALSE),
            OplogInput("i", "d2", "Z", Bx(7), FALSE)})
     EXCEPT !.stored = <<StoredItem("Z", "r1", 0, FALSE),
                         StoredItem("Z", localPerspective, 1, FALSE)>>]

OplogInit ==
  /\ cfg = Operating
  /\ Constructed

OplogNext ==
  \/ SaveOplogItem
  \/ ProcessQueues
  \/ ProcessQueuesLocked
  \/ EmptyTick
  \/ OplogStep

OplogSpec == OplogInit /\ [][OplogNext]_vars

\* a step in which the callback of _applyOplogItem runs, and the entry it was called for
appliesOplogItem == ~crashed /\ run # <<>> /\ run[1].phase = "oplog" /\ stepped' # stepped
oplogEntry == oplogBuffer[run[1].k].item

\* the items a step adds to the snapshot
createdItems == {snapshot'[k] : k \in (Len(snapshot) + 1)..Len(snapshot')}

\* the step fails: the entry stays in the buffer and processQueues calls back with an error
oplogFails == createdItems = {} /\ applied' = applied /\ lastCb' \notin {"ok", "none"}

\* the step creates one version, with the given parents
createsOne(pa, d) ==
  /\ applied' # applied
  /\ \E n \in createdItems :
       /\ createdItems = {n}
       /\ n.id = oplogEntry.id /\ n.pe = localPerspective /\ n.pa = pa /\ n.d = d

\* saveOplogItem calls back with an error for an entry with another operation and
\* does not put it in the buffer
rejectsOtherOps ==
  \A inp \in cfg.feed :
    inp.kind = "oplog" /\ inp.op \notin {"i", "u", "d"} /\ calls < MaxCalls =>
      LET st == saveOplogItem(State, inp, calls + 1)
      IN st.cbs[calls + 1] = "err" /\ st.oplogBuffer = oplogBuffer

\* the entry is the echo of a version in the local DAG
isEcho(o) ==
  \E k \in DOMAIN snapshot :
    /\ snapshot[k].pe = localPerspective /\ o.v # NoV
    /\ compareDAGItemWithCollectionItem(snapshot[k], o)

\* what the claim says of the step for an entry o, item2 being the last acked or
\* locally created item of its id
parentRule(o, item2) ==
  /\ \A n \in createdItems : n.pa = IF item2 = <<>> THEN <<>> ELSE <<item2[1].v>>
  /\ o.op = "i" =>
       IF item2 = <<>> THEN createsOne(<<>>, FALSE)
       ELSE IF item2[1].d THEN createsOne(<<item2[1].v>>, FALSE)
       ELSE oplogFails
  /\ o.op \in {"u", "d"} /\ item2 = <<>> => oplogFails
  /\ o.op = "d" /\ item2 # <<>> => createsOne(<<item2[1].v>>, TRUE)

-----------------------------------------------------------------------------
(* stopAutoProcessing *)

\* short queues, batches of one item, the auto processor: a peer that sends A and B on
\* A, and the oplog reader that gives the insert of Z
Stopping ==
  Options(FALSE, 2, 1, TRUE,
          {RemoteInput("r1", "A"), RemoteInput("r1", "B"),
           OplogInput("i", "d2", "Z", Bx(7), FALSE)})

\* the calls whose items are in the oplog buffer or in the queue of a remote
queuedCalls(st) ==
  {st.oplogBuffer[k].tag : k \in {j \in DOMAIN st.oplogBuffer : ~st.oplogBuffer[j].done}}
    \cup UNION {{st.remoteQueues[pe][k].tag : k \in DOMAIN st.remoteQueues[pe]} :
                  pe \in Perspectives}

\* stopAutoProcessing(cb): clearInterval, then processQueues(cb) when the lock is free,
\* else a retry after 100 ms
stopAutoProcessing(st) ==
  LET st1 == [st EXCEPT !.stopping.cleared = TRUE]
  IN IF st.locked THEN [st1 EXCEPT !.stopping.phase = "waiting"]
     ELSE [processQueues(st1, FALSE) EXCEPT !.stopping.phase = "running"]

StopAutoProcessing ==
  /\ ~crashed /\ stopping.phase = "none"
  /\ Becomes(stopAutoProcessing([State EXCEPT !.stopping.queued = queuedCalls(State)]))
  /\ UNCHANGED calls

\* the setTimeout callback of a stopAutoProcessing that found the lock set, when it
\* finds the lock free (it waits another 100 ms when it finds the lock set)
StopRetry ==
  /\ ~crashed /\ stopping.phase = "waiting" /\ ~locked
  /\ Becomes(stopAutoProcessing(State))
  /\ UNCHANGED calls

StopInit ==
  /\ cfg = Stopping
  /\ Constructed

StopNext ==
  \/ SaveRemoteItem
  \/ SaveOplogItem
  \/ RetryTimer
  \/ ProcessQueues
  \/ ProcessQueuesLocked
  \/ AutoTick
  \/ AutoTickSkip
  \/ EmptyTick
  \/ OplogStep
  \/ RemoteStep
  \/ StopAutoProcessing
  \/ StopRetry

\* the timers fire and the callback a run in progress waits for comes
StopFairness ==
  /\ WF_vars(RetryTimer)
  /\ WF_stepped(RunStep)
  /\ WF_vars(StopRetry)

StopSpec == StopInit /\ [][StopNext]_vars /\ StopFairness

\* the item of a call has been through _applyOplogItem or _ensureAllInDAG
processed(n) == afterCbs[n] # {}

\* a tick of the auto processor starts a run
autoRuns == \E ri \in DOMAIN run' : run'[ri].auto /\ (ri \notin DOMAIN run \/ ~run[ri].auto)

\* C35: when stopAutoProcessing calls back, every item that was in the oplog buffer or
\* in the queue of a remote when it was called has been processed, also when a queue
\* held more than processBatchSize items, and no tick of the auto processor runs after
\* the call
C35_StopFlushes ==
  /\ [](stopping.phase = "done" => \A n \in stopping.queued : processed(n))
  /\ [][stopping.cleared => ~autoRuns]_vars

\* no tick of the auto processor runs after stopAutoProcessing was called
C35_NoTickAfterStop == [][stopping.cleared => ~autoRuns]_vars

-----------------------------------------------------------------------------
(* The oplog of the collection read back *)

\* a peer sends A and B on A; the oplog reader gives what the pipeline writes to the
\* collection
Echoing ==
  [Options(FALSE, 8, 8, FALSE, {RemoteInput("r1", "A"), RemoteInput("r1", "B")})
     EXCEPT !.tailing = TRUE]

\* the oplog reader gives the next entry to saveOplogItem, without afterCb
OplogTail ==
  /\ ~crashed /\ unread # <<>>
  /\ Becomes(saveOplogItem([State EXCEPT !.unread = Tail(@)], Head(unread), 0))
  /\ UNCHANGED calls

EchoInit ==
  /\ cfg = Echoing
  /\ Constructed

EchoNext ==
  \/ SaveRemoteItem
  \/ ProcessQueues
  \/ ProcessQueuesLocked
  \/ EmptyTick
  \/ OplogStep
  \/ RemoteStep
  \/ OplogTail

\* processQueues keeps being called, the callbacks of a run come and the oplog reader
\* follows the oplog
EchoFairness ==
  /\ WF_vars(ProcessQueues)
  /\ WF_stepped(RunStep)
  /\ WF_vars(OplogTail)

EchoSpec == EchoInit /\ [][EchoNext]_vars /\ EchoFairness

\* the entry is an insert or an update with the whole document, and its document and
\* version are those of an item in the local DAG
echoes(o) == o.op \in {"i", "u"} /\ ~o.mod /\ isEcho(o)

\* nothing is left to write: the queues, the oplog buffer and the oplog are empty
nothingPending ==
  /\ oplogBuffer = <<>> /\ unread = <<>>
  /\ \A pe \in Perspectives : remoteQueues[pe] = <<>>

\* C36: an oplog insert or full-document update whose document and version equal an
\* item in the local DAG creates no version and writes nothing to the collection, it
\* only sets the ack flag and the oplog pointer of that item; hence the writes that
\* follow a remote item come to an end
C36_EchoOnlyAcks ==
  /\ [][appliesOplogItem /\ echoes(oplogEntry) =>
          /\ collection' = collection /\ unread' = unread
          /\ snapshot' = setAckd(snapshot, oplogEntry.id, oplogEntry.v, localPerspective,
                                 oplogEntry.ts)]_vars
  /\ <>[]nothingPending

\* the echoes of A and of B were applied: both are acked, with their oplog pointers
C36_Witness ==
  /\ nothingPending /\ run = <<>>
  /\ \E k, j \in DOMAIN snapshot :
       /\ snapshot[k].pe = localPerspective /\ snapshot[k].v = "A" /\ snapshot[k].ack
       /\ snapshot[k].op > 0
       /\ snapshot[j].pe = localPerspective /\ snapshot[j].v = "B" /\ snapshot[j].ack
       /\ snapshot[j].op > 0

-----------------------------------------------------------------------------
(* The lock of processQueues *)

\* a peer that sends its versions, some of them twice, while processQueues and
\* stopAutoProcessing are called
LockInit ==
  /\ cfg = Merging
  /\ Constructed

LockNext ==
  \/ SaveRemoteItem
  \/ ProcessQueues
  \/ ProcessQueuesLocked
  \/ EmptyTick
  \/ RemoteStep
  \/ StopAutoProcessing
  \/ StopRetry

\* the callback a run in progress waits for comes, and the retry of stopAutoProcessing
\* comes at a moment the lock is free if it is free again and again
LockFairness ==
  /\ WF_stepped(RunStep)
  /\ SF_vars(StopRetry)

LockSpec == LockInit /\ [][LockNext]_vars /\ LockFairness

\* C37: every run of processQueues that took the lock clears it, so that a later call
\* of processQueues and a stopAutoProcessing that waits for the lock go on
C37_LockReleased ==
  /\ locked ~> ~locked
  /\ (stopping.phase = "waiting") ~> (stopping.phase # "waiting")

-----------------------------------------------------------------------------
(* A batch that fails *)

\* a peer that sends the versions of two documents, some before their parents
Failing ==
  Options(FALSE, 8, 8, FALSE,
          {RemoteInput("r1", "Z"), RemoteInput("r1", "A"), RemoteInput("r1", "B"),
           RemoteInput("r1", "R")})

FailInit ==
  /\ cfg = Failing
  /\ Constructed

FailNext ==
  \/ SaveRemoteItem
  \/ ProcessQueues
  \/ ProcessQueuesLocked
  \/ EmptyTick
  \/ RemoteStep

FailSpec == FailInit /\ [][FailNext]_vars

\* errors of the validation steps of _ensureAllInDAG
ValidationErrors == {"perspective mismatch", "root preceded", "parent not found", "no lca found"}

\* the calls whose afterCb got an error
failedCalls == {n \in DOMAIN afterCbs : "err" \in afterCbs[n]}

-----------------------------------------------------------------------------
(* The items that wait in the queue of a remote *)

\* batches of one item: a peer that sends A and B on A in any order
Waiting ==
  Options(FALSE, 8, 1, FALSE, {RemoteInput("r1", "A"), RemoteInput("r1", "B")})

WaitInit ==
  /\ cfg = Waiting
  /\ Constructed

WaitNext ==
  \/ SaveRemoteItem
  \/ ProcessQueues
  \/ ProcessQueuesLocked
  \/ EmptyTick
  \/ RemoteStep

\* processQueues keeps being run, and the callback a run in progress waits for comes
WaitFairness ==
  /\ WF_vars(ProcessQueues)
  /\ WF_stepped(RunStep)

WaitSpec == WaitInit /\ [][WaitNext]_vars /\ WaitFairness

\* C39: the afterCb of every item that saveRemoteItem put into a queue is invoked in
\* the end, also when the item waits in the queue while an earlier batch of its remote
\* fails
C39_AfterCbInvoked ==
  \A n \in 1..MaxCalls : (cbs[n] = "ok") ~> (afterCbs[n] # {} \/ crashed)

-----------------------------------------------------------------------------
(* The oplog buffer while a run is in progress *)

\* the oplog reader gives the inserts of two documents
Buffering ==
  Options(FALSE, 8, 8, FALSE,
          {OplogInput("i", "d1", NoV, Bx(1), FALSE), OplogInput("i", "d2", "Z", Bx(7), FALSE)})

BufferInit ==
  /\ cfg = Buffering
  /\ Constructed

BufferNext ==
  \/ SaveOplogItem
  \/ ProcessQueues
  \/ ProcessQueuesLocked
  \/ EmptyTick
  \/ OplogStep

BufferSpec == BufferInit /\ [][BufferNext]_vars

\* the calls whose entries are in the oplog buffer
buffered == {oplogBuffer[k].tag : k \in DOMAIN oplogBuffer}

====
